---- MODULE Spec2Model ----
(***************************************************************************)
(* A model of the order-synchronisation orchestrator                       *)
(* (OrderSyncService.createBiteshipOrdersFromOrder together with           *)
(* OrderSyncStore) and of the retrying API clients (WebkulClient,          *)
(* BiteshipClient, ShopifyAdminClient) of fim-shopify.                     *)
(*                                                                         *)
(* JavaScript runs one continuation at a time: an action of this model is  *)
(* the code that runs between two awaits of one call.                      *)
(***************************************************************************)
EXTENDS Integers, Sequences, FiniteSets, TLC

(***************************************************************************)
(* Bounds of the model.                                                    *)
(***************************************************************************)
NumSellers == 2
MaxRuns == 2
MaxRetriesBound == 2
MaxQuotes == 2
MaxRatesBound == 2

\* the carrier-service callbacks that one service answers
MaxCalls == 2

\* the seconds that pass, and the largest maxEntries of a MemoryCache
MaxTime == 2
MaxEntriesBound == 2

\* the largest quantity of a fulfillment-order line item and of a request
MaxQty == 2

\* the largest number of line items of a request whose cache key is built
MaxItems == 2

\* the largest min_day and max_day of a rate of the courier service
MaxDay == 2

\* the length to which _sanitizeServiceCode cuts a service code
MaxCodeLength == 60

Sellers == 1..NumSellers

\* The two call slots of createBiteshipOrdersFromOrder (HTTP handlers that
\* may be suspended at an await at the same time).
Procs == {"p1", "p2"}

\* error.message values of a rejected booking / fulfillment call
BookErrors == {"E_booking_rejected"}
FulfillErrors == {"E_fulfillment"}
PayloadError == "E_payload_missing_field"
SummaryError == "One or more seller shipments failed"

VARIABLES
  data,      \* OrderSyncStore.data[orderId]: the in-memory record of the order
  file,      \* the record of the order in the JSON file written by save()
  heap,      \* the shipments arrays, by address
  run,       \* per call slot: the locals of createBiteshipOrdersFromOrder
  runs       \* number of calls started so far

syncVars == <<data, file, heap, run, runs>>

VARIABLES
  client,           \* the class of the client instance
  maxRetries,       \* this.maxRetries
  tokens,           \* WebkulClient.tokens
  tokenStore,       \* the file at tokenStorePath
  refreshInFlight,  \* WebkulClient.refreshInFlight: a promise, or 0 for null
  posts,            \* the token-refresh HTTP calls in flight, by promise
  tokenCache,       \* ShopifyAdminClient.tokenCache holds a token
  auth,             \* how the Shopify client is configured
  refreshResponse,  \* the answer to the last settled token-refresh call
  req               \* per call: the locals of request / getRates

clientVars ==
  <<client, maxRetries, tokens, tokenStore, refreshInFlight, posts,
    tokenCache, auth, refreshResponse, req>>

VARIABLES
  shipping,         \* the configuration of the quote path: config.shipping
                    \* (handlingFeeIdr, freeThresholdIdr, maxRates,
                    \* defaultOriginPostalCode) and config.shopify.useBackupOnError
  quote,            \* the locals of a carrier-service callback and of its
                    \* ShippingService.calculate call
  rateCache,        \* ShippingService.rateCache: entries of key and rates
  variantCache,     \* ShippingService.variantCache: the variant ids it holds
  sellerCache,      \* ShippingService.sellerCache: an origin for each seller
  originStore       \* SellerOriginStore.data: an origin for each seller

\* the variables of the utilities that are modelled on their own
VARIABLES
  cache,            \* a MemoryCache: map (entries in Map order) and maxEntries
  now,              \* Date.now(), in seconds
  got               \* the last operation on the MemoryCache and its result

cacheVars == <<cache, now, got>>

\* the variables of the order plan and of the fulfillment allocator
VARIABLES
  plan,             \* the locals of an OrderSyncService._buildPlan call
  alloc,            \* a fulfillment allocator: byLineItem, and the last
                    \* allocate call with its result
  calc              \* a call of one of the functions without effects: its
                    \* arguments and, once it returned, its result

orderVars == <<plan, alloc, calc>>

utilVars == <<cacheVars, orderVars>>

callVars ==
  <<shipping, quote, rateCache, variantCache, sellerCache, originStore>>

quoteVars == <<callVars, utilVars>>

vars == <<syncVars, clientVars, quoteVars>>

(***************************************************************************)
(* Records.  A shipment is an element of nextRecord.shipments; a stored    *)
(* record refers to its shipments array (the spread in saveRecord copies   *)
(* the reference, not the array).                                          *)
(***************************************************************************)
NoShipment ==
  [sellerId |-> 0, status |-> "none", biteshipOrderId |-> 0, error |-> "none",
   fulfilled |-> FALSE]

\* the shipment built after createOrder resolved (lines 979-991); b is the
\* id the courier provider gave the new booking
CreatedShipment(s, b) ==
  [sellerId |-> s, status |-> "created", biteshipOrderId |-> b, error |-> "none",
   fulfilled |-> FALSE]

\* the shipment built in the catch block (lines 1021-1032)
FailedShipment(s, msg) ==
  [sellerId |-> s, status |-> "failed", biteshipOrderId |-> 0, error |-> msg,
   fulfilled |-> FALSE]

NoRecord == [status |-> "none", arr |-> -1, lastError |-> "none"]

NoFile == [status |-> "none", shipments |-> <<>>, lastError |-> "none"]

\* JSON.stringify(this.data) at the time of save(): the array's contents
Serialize(rec, h) ==
  IF rec.status = "none" THEN NoFile
  ELSE [status |-> rec.status, shipments |-> h[rec.arr],
        lastError |-> rec.lastError]


(***************************************************************************)
(* The plan of a run: plan.sellerGroups, one group per seller, in the      *)
(* order in which _buildPlan meets the sellers in order.line_items (the    *)
(* sellers are numbered in that order; a run's plan holds those of them    *)
(* that still have a fulfillable item and an origin).  valid says whether  *)
(* _buildOrderPayload accepts the group (phones, addresses, postal codes). *)
(***************************************************************************)
SellerSeqs ==
  UNION {{q \in [1..n -> Sellers] :
            \A i, j \in 1..n : i < j => q[i] < q[j]} : n \in 1..NumSellers}

\* a field of the booking payload: a text, or no value (undefined or null)
NoField == [t |-> "undefined", v |-> ""]

Text(s) == [t |-> "string", v |-> s]

\* stripEmpty on a field: undefined, null and "" are dropped
StripEmptyField(value) ==
  IF value = NoField \/ value = Text("") THEN NoField ELSE value

\* the fields _buildOrderPayload checks, all present
FullPayload ==
  [origin_contact_phone |-> Text("0811"),
   destination_contact_phone |-> Text("0812"),
   origin_address |-> Text("Jl. Asal"),
   destination_address |-> Text("Jl. Tujuan"),
   origin_postal_code |-> Text("40111"),
   destination_postal_code |-> Text("12345")]

PayloadFields == DOMAIN FullPayload

\* the payloads of a group: complete, or with one field undefined or empty
GroupPayloads ==
  {FullPayload} \cup
  {[FullPayload EXCEPT ![f] = e] :
     f \in PayloadFields, e \in {NoField, Text("")}}

\* _buildOrderPayload: the checks made on the cleaned payload, in their
\* order; "ok" when the payload is returned, else the error thrown
BuildOrderPayload(payload) ==
  LET cleaned == [f \in PayloadFields |-> StripEmptyField(payload[f])]
  IN IF cleaned.origin_contact_phone = NoField THEN "E_origin_phone"
     ELSE IF cleaned.destination_contact_phone = NoField
     THEN "E_destination_phone"
     ELSE IF cleaned.origin_address = NoField THEN "E_origin_address"
     ELSE IF cleaned.destination_address = NoField
     THEN "E_destination_address"
     ELSE IF cleaned.origin_postal_code = NoField
             \/ cleaned.destination_postal_code = NoField
     THEN "E_postal_code"
     ELSE "ok"

Plans ==
  UNION {{[i \in 1..Len(q) |->
             [sellerId |-> q[i],
              valid |-> BuildOrderPayload(pay[i]) = "ok"]] :
            pay \in [1..Len(q) -> GroupPayloads]} : q \in SellerSeqs}

NoResult ==
  [kind |-> "none", ok |-> FALSE, skipped |-> FALSE, record |-> NoRecord,
   error |-> "none"]

Returned(ok, skipped, rec) ==
  [kind |-> "returned", ok |-> ok, skipped |-> skipped, record |-> rec,
   error |-> "none"]

Threw(msg) ==
  [kind |-> "threw", ok |-> FALSE, skipped |-> FALSE, record |-> NoRecord,
   error |-> msg]

\* the locals of a call that has not started
IdleRun ==
  [pc |-> "idle", force |-> FALSE, autoFulfill |-> FALSE,
   existingRecord |-> NoRecord, plan |-> <<>>, idx |-> 0,
   hasFailure |-> FALSE, arr |-> -1, shipment |-> NoShipment,
   calls |-> <<>>, fcalls |-> <<>>, result |-> NoResult]

\* The addresses of the model's heap: an address is free for a new array
\* once nothing refers to the array it held.
Addrs == 0..(2 * Cardinality(Procs) + 1)

\* arrays no object refers to any more are dropped (garbage collection)
Live(d, rn) ==
  {d.arr} \cup UNION {{rn[p].arr, rn[p].existingRecord.arr,
                       rn[p].result.record.arr} : p \in Procs}

Collect(h, d, rn) ==
  [a \in DOMAIN h |-> IF a \in Live(d, rn) THEN h[a] ELSE <<>>]

\* where a new array literal ([] in nextRecord, or an array load() parses)
\* is put: the least free address
FreshAddr(d, rn) ==
  CHOOSE a \in Addrs :
    a \notin Live(d, rn) /\ \A b \in Addrs : b < a => b \in Live(d, rn)

\* The id of a new booking for seller s: the courier provider never gives an
\* id twice; the model takes the least id no shipment still in memory or in
\* the file carries for that seller.
IdsIn(ships, s) ==
  {ships[i].biteshipOrderId : i \in {j \in DOMAIN ships : ships[j].sellerId = s}}

UsedIds(s, h, f, rn) ==
  UNION {IdsIn(h[a], s) : a \in Addrs}
    \cup IdsIn(f.shipments, s)
    \cup {rn[p].shipment.biteshipOrderId : p \in {q \in Procs : rn[q].shipment.sellerId = s}}

FreshId(s, h, f, rn) ==
  CHOOSE n \in 1..(Cardinality(Addrs) + Cardinality(Procs) + 2) :
    n \notin UsedIds(s, h, f, rn) /\ \A m \in 1..(n - 1) : m \in UsedIds(s, h, f, rn)

\* existingRecord?.shipments (the array is read when the loop reaches it)
ExistingShipments(rec, h) ==
  IF rec.status = "none" THEN <<>> ELSE h[rec.arr]

\* shipments.find(entry => String(entry.sellerId) === String(group.sellerId))
RECURSIVE FindFrom(_, _, _)
FindFrom(ships, s, i) ==
  IF i > Len(ships) THEN NoShipment
  ELSE IF ships[i].sellerId = s THEN ships[i]
  ELSE FindFrom(ships, s, i + 1)

PreviousShipment(ships, s) == FindFrom(ships, s, 1)

\* (mutant) a processing record works as a lock
ShouldSkipLockMut(f, rec) == ~f /\ rec.status \in {"completed", "processing"}

\* (mutant) the force flag is read the wrong way round
ShouldSkipMut(f, rec) == f /\ rec.status = "completed"

\* if (!force && existingRecord?.status === "completed")
ShouldSkip(f, rec) == ~f /\ rec.status = "completed"

\* (mutant) force does not prevent the reuse
ReusesMut(f, prev) == prev.status = "created"

\* if (!force && previousShipment?.status === "created")
Reuses(f, prev) == ~f /\ prev.status = "created"

(***************************************************************************)
(* The part of the for loop that runs without an await, from group i on:   *)
(* reused shipments are pushed, a group whose payload is rejected by       *)
(* _buildOrderPayload gets a failed shipment, and the loop stops at the    *)
(* first group for which createOrder is called (idx <= Len(pl)) or at the  *)
(* end of the plan (idx = Len(pl) + 1).                                    *)
(***************************************************************************)
\* (mutant) a group whose payload is rejected is booked all the same
RECURSIVE AdvanceMut(_, _, _, _, _)
AdvanceMut(pl, i, ships, prev, f) ==
  IF i > Len(pl) THEN [idx |-> i, ships |-> ships, fail |-> FALSE]
  ELSE LET ps == PreviousShipment(prev, pl[i].sellerId)
       IN IF Reuses(f, ps)
          THEN AdvanceMut(pl, i + 1, Append(ships, ps), prev, f)
          ELSE [idx |-> i, ships |-> ships, fail |-> FALSE]

RECURSIVE Advance(_, _, _, _, _)
Advance(pl, i, ships, prev, f) ==
  IF i > Len(pl) THEN [idx |-> i, ships |-> ships, fail |-> FALSE]
  ELSE LET g == pl[i]
           ps == PreviousShipment(prev, g.sellerId)
       IN IF Reuses(f, ps)
          THEN Advance(pl, i + 1, Append(ships, ps), prev, f)
          ELSE IF ~g.valid
          THEN LET rest == Advance(pl, i + 1,
                             Append(ships, FailedShipment(g.sellerId, PayloadError)),
                             prev, f)
               IN [rest EXCEPT !.fail = TRUE]
          ELSE [idx |-> i, ships |-> ships, fail |-> FALSE]

\* (mutant) the final status ignores hasFailure
FinalStatusMut(fail) == "completed"

\* nextRecord.status = hasFailure ? "partial_failed" : "completed"
FinalStatus(fail) == IF fail THEN "partial_failed" ELSE "completed"

\* nextRecord.lastError = hasFailure ? "One or more ..." : null
FinalError(fail) == IF fail THEN SummaryError ELSE "none"

\* (mutant) the processing record is not saved
SavedRecordMut(status, a, err) ==
  IF status = "processing" THEN [status |-> "none", arr |-> -1, lastError |-> "none"]
  ELSE [status |-> status, arr |-> a, lastError |-> err]

\* OrderSyncStore.saveRecord followed by save(): the stored object is a new
\* one whose shipments field is the same array as the record's
SavedRecord(status, a, err) == [status |-> status, arr |-> a, lastError |-> err]

(***************************************************************************)
(* Continue the loop of slot p after its locals became r and its array     *)
(* ships: either the next createOrder call is issued, or the loop is over  *)
(* and lines 1045-1054 run (final status, saveRecord, return).             *)
(***************************************************************************)
Proceed(p, r, ships) ==
  LET adv == Advance(r.plan, r.idx + 1, ships,
                     ExistingShipments(r.existingRecord, heap), r.force)
      fail == r.hasFailure \/ adv.fail
      h1 == [heap EXCEPT ![r.arr] = adv.ships]
  IN IF adv.idx <= Len(r.plan)
     THEN LET rn == [run EXCEPT ![p] =
                       [r EXCEPT !.pc = "booking", !.idx = adv.idx,
                                 !.hasFailure = fail,
                                 !.calls = [r.calls EXCEPT ![adv.idx] = "pending"]]]
          IN /\ run' = rn
             /\ heap' = Collect(h1, data, rn)
             /\ UNCHANGED <<data, file>>
     ELSE LET rec == SavedRecord(FinalStatus(fail), r.arr, FinalError(fail))
              rn == [run EXCEPT ![p] =
                       [r EXCEPT !.pc = "done", !.idx = adv.idx,
                                 !.hasFailure = fail,
                                 !.result = Returned(~fail, FALSE, rec)]]
              h2 == Collect(h1, rec, rn)
          IN /\ run' = rn
             /\ heap' = h2
             /\ data' = rec
             /\ file' = Serialize(rec, h2)


(***************************************************************************)
(* createBiteshipOrdersFromOrder, one action per continuation.             *)
(***************************************************************************)

\* the call is made (lines 900-920): options are read and getOrder is sent
Start(p, f, af) ==
  /\ run[p].pc \in {"idle", "done"}
  /\ runs < MaxRuns
  /\ runs' = runs + 1
  /\ LET rn == [run EXCEPT ![p] =
                  [IdleRun EXCEPT !.pc = "getOrder", !.force = f,
                                  !.autoFulfill = af]]
     IN /\ run' = rn
        /\ heap' = Collect(heap, data, rn)
  /\ UNCHANGED <<data, file, clientVars, quoteVars>>

\* shopifyAdminClient.isConfigured() is false (lines 901-905)
StartNotConfigured(p) ==
  /\ run[p].pc \in {"idle", "done"}
  /\ runs < MaxRuns
  /\ runs' = runs + 1
  /\ LET rn == [run EXCEPT ![p] =
                  [IdleRun EXCEPT !.pc = "done",
                                  !.result = Threw("E_not_configured")]]
     IN /\ run' = rn
        /\ heap' = Collect(heap, data, rn)
  /\ UNCHANGED <<data, file, clientVars, quoteVars>>

\* getOrder rejects (line 920)
GetOrderFail(p) ==
  /\ run[p].pc = "getOrder"
  /\ run' = [run EXCEPT ![p].pc = "done", ![p].result = Threw("E_get_order")]
  /\ UNCHANGED <<data, file, heap, runs, clientVars, quoteVars>>

\* getOrder resolves (lines 920-933): the stored record is read, and the call
\* either returns it (already completed) or goes on to build the plan
GetOrderOk(p) ==
  /\ run[p].pc = "getOrder"
  /\ IF ShouldSkip(run[p].force, data)
     THEN run' = [run EXCEPT ![p].pc = "done", ![p].existingRecord = data,
                              ![p].result = Returned(TRUE, TRUE, data)]
     ELSE run' = [run EXCEPT ![p].pc = "plan", ![p].existingRecord = data]
  /\ UNCHANGED <<data, file, heap, runs, clientVars, quoteVars>>

\* _buildPlan rejects (line 933): destination without postal code, no
\* shippable line item, no valid seller group, or a lookup that threw
PlanFail(p) ==
  /\ run[p].pc = "plan"
  /\ run' = [run EXCEPT ![p].pc = "done", ![p].result = Threw("E_plan")]
  /\ UNCHANGED <<data, file, heap, runs, clientVars, quoteVars>>

\* _buildPlan resolves with plan pl (lines 933-956): the processing record is
\* saved; with autoFulfill the fulfillment orders are requested, otherwise
\* the loop starts
PlanOk(p, pl) ==
  /\ run[p].pc = "plan"
  /\ LET a == FreshAddr(data, run)
         rec == SavedRecord("processing", a, "none")
         r == [run[p] EXCEPT !.plan = pl, !.arr = a, !.idx = 0,
                             !.calls = [i \in 1..Len(pl) |-> "none"],
                             !.fcalls = [i \in 1..Len(pl) |-> "none"]]
     IN IF r.autoFulfill
        THEN LET rn == [run EXCEPT ![p] = [r EXCEPT !.pc = "fetchFO"]]
                 h == Collect([heap EXCEPT ![a] = <<>>], rec, rn)
             IN /\ run' = rn
                /\ heap' = h
                /\ data' = rec
                /\ file' = Serialize(rec, h)
        ELSE \* saveRecord, then the loop up to its first await
             LET adv == Advance(pl, 1, <<>>,
                                ExistingShipments(r.existingRecord, heap), r.force)
                 h0 == [heap EXCEPT ![a] = adv.ships]
             IN IF adv.idx <= Len(pl)
                THEN LET rn == [run EXCEPT ![p] =
                                  [r EXCEPT !.pc = "booking", !.idx = adv.idx,
                                            !.hasFailure = adv.fail,
                                            !.calls = [r.calls EXCEPT
                                                         ![adv.idx] = "pending"]]]
                     IN /\ run' = rn
                        /\ heap' = Collect(h0, rec, rn)
                        /\ data' = rec
                        /\ file' = Serialize(rec, [heap EXCEPT ![a] = <<>>])
                ELSE LET fin == SavedRecord(FinalStatus(adv.fail), a,
                                            FinalError(adv.fail))
                         rn == [run EXCEPT ![p] =
                                  [r EXCEPT !.pc = "done", !.idx = adv.idx,
                                            !.hasFailure = adv.fail,
                                            !.result = Returned(~adv.fail, FALSE, fin)]]
                         h2 == Collect(h0, fin, rn)
                     IN /\ run' = rn
                        /\ heap' = h2
                        /\ data' = fin
                        /\ file' = Serialize(fin, h2)
  /\ UNCHANGED <<runs, clientVars, quoteVars>>

\* getFulfillmentOrders rejects (line 952): the call throws
FetchFOFail(p) ==
  /\ run[p].pc = "fetchFO"
  /\ run' = [run EXCEPT ![p].pc = "done",
                        ![p].result = Threw("E_fulfillment_orders")]
  /\ UNCHANGED <<data, file, heap, runs, clientVars, quoteVars>>

\* getFulfillmentOrders resolves (lines 952-958): the allocator is built and
\* the loop starts
FetchFOOk(p) ==
  /\ run[p].pc = "fetchFO"
  /\ Proceed(p, run[p], heap[run[p].arr])
  /\ UNCHANGED <<runs, clientVars, quoteVars>>

\* (mutant) the rejection of createOrder is not caught: the call throws
BookingFailMut(p, msg) ==
  /\ run[p].pc = "booking"
  /\ run' = [run EXCEPT ![p].pc = "done", ![p].result = Threw(msg),
                        ![p].calls = [run[p].calls EXCEPT ![run[p].idx] = msg]]
  /\ UNCHANGED <<data, file, heap, runs, clientVars, quoteVars>>

\* createOrder rejects for the current group (lines 1018-1042)
BookingFail(p, msg) ==
  /\ run[p].pc = "booking"
  /\ LET r == run[p]
         g == r.plan[r.idx]
     IN Proceed(p, [r EXCEPT !.hasFailure = TRUE,
                             !.calls = [r.calls EXCEPT ![r.idx] = msg]],
                Append(heap[r.arr], FailedShipment(g.sellerId, msg)))
  /\ UNCHANGED <<runs, clientVars, quoteVars>>

\* createOrder resolves for the current group (lines 976-1007).  With
\* autoFulfill the allocator is asked; when nothing can be allocated (empty)
\* _createShopifyFulfillment returns null without a call, otherwise
\* createFulfillment is sent.
BookingOk(p, empty) ==
  /\ run[p].pc = "booking"
  /\ LET r == [run[p] EXCEPT !.calls = [run[p].calls EXCEPT ![run[p].idx] = "ok"]]
         g == r.plan[r.idx]
         sh == CreatedShipment(g.sellerId, FreshId(g.sellerId, heap, file, run))
     IN IF r.autoFulfill /\ ~empty
        THEN /\ run' = [run EXCEPT ![p] =
                          [r EXCEPT !.pc = "fulfill", !.shipment = sh,
                                    !.fcalls = [r.fcalls EXCEPT ![r.idx] = "pending"]]]
             /\ UNCHANGED <<data, file, heap>>
        ELSE Proceed(p, r, Append(heap[r.arr], sh))
  /\ (empty => run[p].autoFulfill)
  /\ UNCHANGED <<runs, clientVars, quoteVars>>

\* createFulfillment resolves (lines 1001-1007)
FulfillOk(p) ==
  /\ run[p].pc = "fulfill"
  /\ LET r == run[p]
     IN Proceed(p, [r EXCEPT !.shipment = NoShipment,
                             !.fcalls = [r.fcalls EXCEPT ![r.idx] = "ok"]],
                Append(heap[r.arr], [r.shipment EXCEPT !.fulfilled = TRUE]))
  /\ UNCHANGED <<runs, clientVars, quoteVars>>

\* createFulfillment rejects: the catch block records the group as failed
\* although its booking was made (lines 994-999, 1018-1034)
FulfillFail(p, msg) ==
  /\ run[p].pc = "fulfill"
  /\ LET r == run[p]
         g == r.plan[r.idx]
     IN Proceed(p, [r EXCEPT !.shipment = NoShipment, !.hasFailure = TRUE,
                             !.fcalls = [r.fcalls EXCEPT ![r.idx] = msg]],
                Append(heap[r.arr], FailedShipment(g.sellerId, msg)))
  /\ UNCHANGED <<runs, clientVars, quoteVars>>

\* what OrderSyncStore.load() builds from the file (JSON.parse)
Loaded(f) ==
  IF f.status = "none" THEN NoRecord
  ELSE [status |-> f.status, arr |-> 0, lastError |-> f.lastError]

\* The process dies while a call is in progress and is started again: the
\* calls in progress are gone and the store is what the constructor's load()
\* reads from the file.  (A restart between two calls reloads what the last
\* saveRecord wrote, which is the record the memory held.)
Crash ==
  /\ \E p \in Procs : run[p].pc \notin {"idle", "done"}
  /\ run' = [p \in Procs |-> IdleRun]
  /\ data' = Loaded(file)
  /\ heap' = [a \in Addrs |-> IF a = 0 THEN file.shipments ELSE <<>>]
  /\ UNCHANGED <<file, runs, clientVars, quoteVars>>

InitSync ==
  /\ data = NoRecord
  /\ file = NoFile
  /\ heap = [a \in Addrs |-> <<>>]
  /\ run = [p \in Procs |-> IdleRun]
  /\ runs = 0

\* no other call is in progress
Alone(p) == \A q \in Procs \ {p} : run[q].pc \in {"idle", "done"}

Step(p) ==
  \/ GetOrderFail(p)
  \/ GetOrderOk(p)
  \/ PlanFail(p)
  \/ \E pl \in Plans : PlanOk(p, pl)
  \/ FetchFOFail(p)
  \/ FetchFOOk(p)
  \/ \E msg \in BookErrors : BookingFail(p, msg)
  \/ \E empty \in BOOLEAN : BookingOk(p, empty)
  \/ FulfillOk(p)
  \/ \E msg \in FulfillErrors : FulfillFail(p, msg)

\* calls made one after the other, as from one client
NextSync ==
  \/ \E f, af \in BOOLEAN : Start("p1", f, af)
  \/ StartNotConfigured("p1")
  \/ Step("p1")
  \/ Crash


\* calls made at the same time, as from two clients, without autoFulfill:
\* each continuation of either call runs when its await settles
NextRace ==
  \/ \E p \in Procs : \E f \in BOOLEAN : Start(p, f, FALSE)
  \/ \E p \in Procs : GetOrderFail(p)
  \/ \E p \in Procs : GetOrderOk(p)
  \/ \E p \in Procs : PlanFail(p)
  \/ \E p \in Procs : \E pl \in Plans : PlanOk(p, pl)
  \/ \E p \in Procs : \E msg \in BookErrors : BookingFail(p, msg)
  \/ \E p \in Procs : BookingOk(p, FALSE)

\* calls without force made one after the other in one process that runs on
NextRerun ==
  \/ \E af \in BOOLEAN : Start("p1", FALSE, af)
  \/ StartNotConfigured("p1")
  \/ Step("p1")

(***************************************************************************)
(* Properties of the order-sync orchestrator.                              *)
(***************************************************************************)

\* the call of slot p went through the loop and returned its saved record
Finished(p) ==
  /\ run[p].pc = "done"
  /\ run[p].result.kind = "returned"
  /\ ~run[p].result.skipped

\* the shipment the record read at the start of the run holds for the seller
\* of group i of the plan of slot p
Previous(p, i) ==
  PreviousShipment(ExistingShipments(run[p].existingRecord, heap),
                   run[p].plan[i].sellerId)

Groups(p) == 1..Len(run[p].plan)

\* C1: when getOrder resolves for a call with force=false while the stored
\* record is completed, the call returns at once with exactly that stored
\* record (skipped), without planning, so without any createOrder or
\* createFulfillment call, and the store (memory, arrays, file) is untouched.
C1_IdempotentSkip ==
  [][\A p \in Procs :
       (/\ run[p].pc = "getOrder"
        /\ ~run[p].force
        /\ data.status = "completed"
        /\ run'[p].pc \notin {"getOrder", "idle"}
        /\ run'[p].result.kind # "threw")
       => (/\ run'[p].pc = "done"
           /\ run'[p].result = Returned(TRUE, TRUE, data)
           /\ run'[p].calls = <<>>
           /\ run'[p].fcalls = <<>>
           /\ data' = data
           /\ file' = file
           /\ heap' = heap)]_vars

\* a second call found the completed record and returned it
C1_Witness ==
  \E p \in Procs :
    /\ run[p].pc = "done"
    /\ run[p].result.skipped
    /\ ~run[p].force
    /\ run[p].result.record = data
    /\ data.status = "completed"
    /\ runs >= 2

\* C2: a call that throws has had no booking rejected (a rejected booking
\* never ends the call); a call that returns from the loop holds exactly one
\* shipment per group of its plan, in plan order, each created or failed; a
\* group whose booking was rejected is a failed shipment carrying the error
\* message of the rejection, and then the record is partial_failed.
C2_FailureIsolated ==
  \A p \in Procs :
    /\ (run[p].pc = "done" /\ run[p].result.kind = "threw")
         => \A i \in Groups(p) : run[p].calls[i] = "none"
    /\ Finished(p) =>
         LET r == run[p]
             ships == heap[r.result.record.arr]
         IN /\ Len(ships) = Len(r.plan)
            /\ \A i \in Groups(p) :
                 /\ ships[i].sellerId = r.plan[i].sellerId
                 /\ ships[i].status \in {"created", "failed"}
                 /\ r.calls[i] \in BookErrors =>
                      /\ ships[i].status = "failed"
                      /\ ships[i].error = r.calls[i]
                      /\ r.result.record.status = "partial_failed"

\* the example of the specification: group 1 booked, group 2 rejected
C2_Witness ==
  \E p \in Procs :
    /\ Finished(p)
    /\ Len(run[p].plan) = 2
    /\ run[p].calls[1] = "ok"
    /\ run[p].calls[2] \in BookErrors
    /\ heap[run[p].arr][1].status = "created"
    /\ heap[run[p].arr][2].status = "failed"
    /\ run[p].result.record.status = "partial_failed"

\* C3 as stated: without force a group with a prior created shipment gets no
\* booking call and keeps that shipment; with force every group of the plan
\* gets a booking call.
C3_Original ==
  \A p \in Procs :
    /\ \A i \in Groups(p) :
         (~run[p].force /\ Previous(p, i).status = "created")
           => run[p].calls[i] = "none"
    /\ Finished(p) =>
         /\ \A i \in Groups(p) :
              (~run[p].force /\ Previous(p, i).status = "created")
                => heap[run[p].arr][i] = Previous(p, i)
         /\ run[p].force => \A i \in Groups(p) : run[p].calls[i] # "none"

\* C3 amended: without force a group with a prior created shipment gets no
\* booking call (at any time of the run) and keeps that shipment; with force
\* no shipment is reused: a group gets a booking call if and only if its
\* booking payload passes validation, and a group with an invalid payload is
\* a failed shipment.
C3_ReuseUnlessForce ==
  \A p \in Procs :
    /\ \A i \in Groups(p) :
         (~run[p].force /\ Previous(p, i).status = "created")
           => run[p].calls[i] = "none"
    /\ Finished(p) =>
         /\ \A i \in Groups(p) :
              (~run[p].force /\ Previous(p, i).status = "created")
                => heap[run[p].arr][i] = Previous(p, i)
         /\ run[p].force =>
              \A i \in Groups(p) :
                /\ run[p].calls[i] # "none" <=> run[p].plan[i].valid
                /\ ~run[p].plan[i].valid =>
                     heap[run[p].arr][i] =
                       FailedShipment(run[p].plan[i].sellerId, PayloadError)

\* a run without force kept a created shipment and booked another group, and
\* (in another state) a run with force booked a group that had one
C3_Witness ==
  \E p \in Procs :
    /\ Finished(p)
    /\ ~run[p].force
    /\ Len(run[p].plan) = 2
    /\ Previous(p, 1).status = "created"
    /\ heap[run[p].arr][1] = Previous(p, 1)
    /\ run[p].calls[1] = "none"
    /\ run[p].calls[2] = "ok"


\* group i of the plan of slot p failed in this run: its payload was
\* rejected, or its booking call, or its fulfillment call
FailedInRun(p, i) ==
  \/ run[p].calls[i] \in BookErrors
  \/ run[p].fcalls[i] \in FulfillErrors
  \/ (run[p].calls[i] = "none" /\ ~run[p].plan[i].valid
        /\ ~Reuses(run[p].force, Previous(p, i)))

\* C4: when a run returns from the loop, the record it saved (the one the
\* store and the file then hold) is completed or partial_failed, and it is
\* completed exactly when every group of the plan has a created shipment in
\* it, which is exactly when no group failed in this run.
C4_CompletedIffAllCreated ==
  \A p \in Procs :
    Finished(p) =>
      LET rec == run[p].result.record
          ships == heap[rec.arr]
          allCreated ==
            \A i \in Groups(p) :
              \E j \in DOMAIN ships :
                /\ ships[j].sellerId = run[p].plan[i].sellerId
                /\ ships[j].status = "created"
      IN /\ rec.status \in {"completed", "partial_failed"}
         /\ (rec.status = "completed") <=> allCreated
         /\ (rec.status = "completed") <=> ~(\E i \in Groups(p) : FailedInRun(p, i))
         /\ run[p].result.ok <=> (rec.status = "completed")
         /\ data = rec
         /\ file = Serialize(rec, heap)

\* a run of two groups ended partial_failed with one created shipment
C4_Witness ==
  \E p \in Procs :
    /\ Finished(p)
    /\ Len(run[p].plan) = 2
    /\ run[p].result.record.status = "partial_failed"
    /\ \E i \in Groups(p) : heap[run[p].arr][i].status = "created"
    /\ \E i \in Groups(p) : heap[run[p].arr][i].status = "failed"

\* C5 as stated: while a run is between two groups (waiting for a booking or
\* a fulfillment call), the file holds the shipments of the groups the run
\* has already processed, so that a crash at that moment keeps them.
C5_PersistedAfterEachGroup ==
  \A p \in Procs :
    run[p].pc \in {"booking", "fulfill"} => file.shipments = heap[run[p].arr]

\* C6 as stated: once a call that wrote a processing record has returned or
\* thrown, the stored record is not processing.
C6_ProcessingReplaced ==
  \A p \in Procs :
    (run[p].pc = "done" /\ run[p].arr # -1) => data.status # "processing"

\* the stored record names a failure: a summary error, or a failed shipment
\* with its seller and its error message
CarriesError(rec, h) ==
  /\ rec.status # "none"
  /\ \/ rec.lastError # "none"
     \/ \E i \in DOMAIN h[rec.arr] :
          /\ h[rec.arr][i].status = "failed"
          /\ h[rec.arr][i].error # "none"
          /\ h[rec.arr][i].sellerId \in Sellers

\* C7 as stated: after a sync attempt failed (plan building, the fetch of the
\* fulfillment orders, or a booking), the store holds a record of the order
\* that carries the error.
C7_FailureLeavesRecord ==
  \A p \in Procs :
    (/\ run[p].pc = "done"
     /\ \/ run[p].result.error \in {"E_plan", "E_fulfillment_orders"}
        \/ \E i \in Groups(p) : run[p].calls[i] \in BookErrors)
      => CarriesError(data, heap)


(***************************************************************************)
(* The API clients: WebkulClient.request with _refreshToken,               *)
(* BiteshipClient.getRates and ShopifyAdminClient.request.  One client     *)
(* instance is modelled at a time (client says of which class), with the   *)
(* calls of Reqs in progress on it at the same time.                       *)
(***************************************************************************)
Reqs == {"r1", "r2"}

Clients == {"webkul", "biteship", "shopify"}

\* error.response?.status when there is no response (timeout, network error)
NoResponse == 0

\* the statuses a server answers with; NoResponse stands for no answer
Statuses == {NoResponse, 200, 401, 404, 408, 429, 500}

\* response bodies (error.response.data)
Bodies == {"body_a", "body_b"}

\* what the error thrown to the caller carries: wrapped errors have
\* details.status and the response body; an error that is not wrapped (a
\* failed refresh, a client that is not configured) is the original error
NoDetails == [status |-> NoResponse, data |-> "none", wrapped |-> FALSE]

\* the last response to a call (none while a request is in flight); of a
\* response that is retried the call reads the status and the Retry-After
\* header only, so its body is left out
NoResp == [status |-> NoResponse, body |-> "none"]

\* The Retry-After header of a response: absent (or empty), a number of
\* seconds, an HTTP date (v is the date minus the time of parsing, in ms), or
\* text that is neither.
NoHeader == [kind |-> "absent", v |-> 0]

Headers ==
  {NoHeader,
   [kind |-> "seconds", v |-> 0], [kind |-> "seconds", v |-> 2],
   [kind |-> "date", v |-> -1000], [kind |-> "date", v |-> 1500],
   [kind |-> "garbage", v |-> 0]}

\* parseRetryAfterMs returns null
Null == -1

\* parseRetryAfterMs of the three clients
ParseRetryAfterMs(h) ==
  CASE h.kind = "seconds" -> IF h.v * 1000 > 0 THEN h.v * 1000 ELSE 0
    [] h.kind = "date" -> IF h.v > 0 THEN h.v ELSE 0
    [] OTHER -> Null

\* the default retryDelayMs of the constructors
RetryDelayMs(c) == IF c = "webkul" THEN 400 ELSE 300

\* parseRetryAfterMs(retryAfterHeader) || this.retryDelayMs * 2 ** attempt:
\* null and 0 are falsy
RetryAfterMs(c, h, attempt) ==
  LET parsed == ParseRetryAfterMs(h)
  IN IF parsed # Null /\ parsed # 0
     THEN parsed
     ELSE RetryDelayMs(c) * 2 ^ attempt

\* a call that has not been made
IdleReq ==
  [st |-> "idle", retry |-> TRUE, attempt |-> 0, token |-> 0,
   awaits |-> 0, sends |-> 0, resends |-> 0, refreshes |-> 0,
   last |-> NoResp, details |-> NoDetails,
   header |-> NoHeader, delay |-> 0]

NoTokens == [accessToken |-> 0, refreshToken |-> 0]

\* no token-refresh call has been answered (also: one that got no response)
NoRefreshResponse == [status |-> NoResponse, access_token |-> 0, refresh_token |-> 0]

\* no response has been sent
NoReply == [status |-> 0, body |-> "none", rates |-> <<>>]

\* a carrier-service callback that has not been made
IdleQuote ==
  [pc |-> "idle", calls |-> 0, request |-> [object |-> FALSE],
   variants |-> <<>>, sellers |-> <<>>, origins |-> <<>>,
   skippedItems |-> <<>>, sellerGroups |-> <<>>, biteshipResults |-> <<>>,
   subtotalIdr |-> 0, aggregated |-> <<>>, aggregatedRates |-> <<>>,
   rates |-> <<>>,
   reason |-> "none", threw |-> FALSE, gap |-> "none",
   webkulCalls |-> 0, biteshipCalls |-> 0, log |-> "none", http |-> NoReply]

\* no origin: SellerOriginStore.get and MemoryCache.get return null
NoOrigin == [postalCode |-> "", source |-> "none", via |-> "none"]

\* the sellers of the variants
QuoteSellers == {"s1", "s2"}

\* the keys of a MemoryCache
CacheKeys == {"a", "b", "c"}

\* no operation on the MemoryCache yet
NothingGot ==
  [op |-> "none", key |-> "none", value |-> 0, hit |-> "none",
   touched |-> <<>>, last |-> [k \in CacheKeys |-> 0]]

\* a MemoryCache that is not used
CacheOff ==
  /\ cache = [map |-> <<>>, maxEntries |-> 0]
  /\ now = 0
  /\ got = NothingGot

\* the selection without a shipping line that parses (lines 245-252)
NoSelection ==
  [source |-> "none", serviceCode |-> <<>>, courierCompany |-> <<>>,
   courierType |-> <<>>, isMixedFallback |-> FALSE]

\* a _buildPlan call that has not been made
IdlePlan ==
  [pc |-> "idle", order |-> [zip |-> "", line_items |-> <<>>, shipping_lines |-> <<>>],
   options |-> [courierCompany |-> <<>>, courierType |-> <<>>],
   shippable |-> <<>>, pending |-> <<>>, variantMappings |-> <<>>,
   sellers |-> <<>>, groupsBySeller |-> <<>>, skippedItems |-> <<>>,
   selectedShipping |-> NoSelection, sellerGroups |-> <<>>,
   rateCalls |-> 0, threw |-> FALSE, error |-> "none"]

\* before _buildFulfillmentAllocator
NoAllocator ==
  [built |-> FALSE, fetched |-> <<>>, byLineItem |-> <<>>, before |-> <<>>,
   requested |-> <<>>,
   lineItemsByFulfillmentOrder |-> <<>>, unallocated |-> <<>>]

\* no function is called
NoCalc == [fn |-> "none"]

\* no plan is built, nothing is allocated, no function is called
OrderOff ==
  /\ plan = IdlePlan
  /\ alloc = NoAllocator
  /\ calc = NoCalc

\* the state of a model in which no quote is computed
CallsOff ==
  /\ shipping = [handlingFeeIdr |-> 0, freeThresholdIdr |-> 0, maxRates |-> 0,
                 defaultOriginPostalCode |-> "", useBackupOnError |-> FALSE]
  /\ quote = IdleQuote
  /\ rateCache = {}
  /\ variantCache = {}
  /\ sellerCache = [s \in QuoteSellers |-> NoOrigin]
  /\ originStore = [s \in QuoteSellers |-> NoOrigin]

QuoteOff ==
  /\ CallsOff
  /\ CacheOff
  /\ OrderOff

\* the state of a model in which no client call is made
ClientOff ==
  /\ client = "none"
  /\ maxRetries = 0
  /\ tokens = NoTokens
  /\ tokenStore = NoTokens
  /\ refreshInFlight = 0
  /\ posts = {}
  /\ tokenCache = FALSE
  /\ auth = "none"
  /\ refreshResponse = NoRefreshResponse
  /\ req = [r \in Reqs |-> IdleReq]

\* the responses a call can get: a status with a body, or no response
Responses ==
  {[status |-> st, body |-> b] : st \in Statuses \ {NoResponse}, b \in Bodies}
    \cup {NoResp}

\* the Retry-After headers a response can have; the header is read only to
\* compute the delay of a retry, so only responses with a status that the
\* clients retry are given one
HeadersOf(resp) ==
  IF resp.status = 429 \/ resp.status = 408 \/ resp.status >= 500
  THEN Headers
  ELSE {NoHeader}

\* (mutant) one retry too many
WebkulShouldRetryMut(status, attempt, max) ==
  (status = 429 \/ status = 408 \/ status >= 500) /\ attempt <= max

\* WebkulClient.request: shouldRetryWithBackoff
WebkulShouldRetry(status, attempt, max) ==
  (status = 429 \/ status = 408 \/ status >= 500) /\ attempt < max

\* BiteshipClient.getRates: the condition of the retry
BiteshipShouldRetry(status, attempt, max) ==
  (status = 429 \/ status = 408 \/ status >= 500) /\ attempt < max

\* (mutant) every error status is retried
ShopifyShouldRetryMut(status, attempt, max) ==
  status >= 400 /\ attempt < max

\* ShopifyAdminClient.request: shouldRetry
ShopifyShouldRetry(status, attempt, max) ==
  (status = 429 \/ status = 408 \/ status >= 500) /\ attempt < max

ShouldRetry(c, status, attempt, max) ==
  CASE c = "webkul" -> WebkulShouldRetry(status, attempt, max)
    [] c = "biteship" -> BiteshipShouldRetry(status, attempt, max)
    [] OTHER -> ShopifyShouldRetry(status, attempt, max)

\* wrappedError.details of the three clients: the status and the body of the
\* response that ended the call
Details(resp) == [status |-> resp.status, data |-> resp.body, wrapped |-> TRUE]

\* (mutant) a second refresh is started although one is in flight
JoinsRefreshMut(inFlight) == FALSE

\* _refreshToken: if (this.refreshInFlight) return this.refreshInFlight
JoinsRefresh(inFlight) == inFlight # 0

\* the promise of a new refresh call: the least one not pending
FreshPromise(ps) ==
  CHOOSE k \in 1..(Cardinality(Reqs) + 1) :
    k \notin ps /\ \A j \in 1..(k - 1) : j \in ps

\* (mutant) the re-send after the refresh counts as an attempt
ResentMut(q, tok) ==
  [q EXCEPT !.st = "sent", !.retry = FALSE, !.token = tok, !.awaits = 0,
            !.attempt = q.attempt + 1,
            !.sends = q.sends + 1, !.resends = q.resends + 1, !.last = NoResp]

\* return this.request({...}, false, attempt) after the refresh (line 168):
\* the request is sent again with the token the client now holds
Resent(q, tok) ==
  [q EXCEPT !.st = "sent", !.retry = FALSE, !.token = tok, !.awaits = 0,
            !.sends = q.sends + 1, !.resends = q.resends + 1, !.last = NoResp]

\* http.request is called with the client's current token (lines 149-157)
Sent(q, tok) ==
  [q EXCEPT !.st = "sent", !.token = tok, !.sends = q.sends + 1,
            !.last = NoResp]

\* One attempt of ShopifyAdminClient.request (lines 121-132):
\* _resolveAccessToken returns the admin token or the cached one (cached says
\* the cache holds a token that has not expired), or the token is fetched.
ShopifyAttempt(q, cached) ==
  IF auth = "admin" \/ cached
  THEN Sent(q, 0)
  ELSE [q EXCEPT !.st = "token", !.last = NoResp]

\* the start of an attempt of a call of the client
Attempt(q, cached) ==
  IF client = "webkul" THEN Sent(q, tokens.accessToken)
  ELSE IF client = "biteship" THEN Sent(q, 0)
  ELSE ShopifyAttempt(q, cached)

\* request / getRates is called
Call(r, cached) ==
  /\ client # "none"
  /\ req[r].st = "idle"
  /\ cached => (client = "shopify" /\ auth = "client" /\ tokenCache)
  /\ IF client = "shopify" /\ auth = "none"
     THEN \* isConfigured() is false: a plain error, before the try block
          req' = [req EXCEPT ![r].st = "failed"]
     ELSE req' = [req EXCEPT ![r] = Attempt(req[r], cached)]
  /\ UNCHANGED <<client, maxRetries, tokens, tokenStore, refreshInFlight,
                 posts, tokenCache, auth, refreshResponse, syncVars, quoteVars>>

\* The catch block of the three clients for the error of response resp:
\* (Webkul) a 401 of a call that may still refresh starts or joins the
\* refresh; a retryable status within the budget goes to sleep; anything else
\* throws the wrapped error.
OnError(r, q, resp, h) ==
  IF client = "webkul" /\ resp.status = 401 /\ q.retry
  THEN IF JoinsRefresh(refreshInFlight)
       THEN /\ req' = [req EXCEPT ![r] = [q EXCEPT !.st = "refreshing",
                                                   !.awaits = refreshInFlight,
                                                   !.last = resp]]
            /\ UNCHANGED <<refreshInFlight, posts>>
       ELSE LET k == FreshPromise(posts)
            IN /\ req' = [req EXCEPT ![r] = [q EXCEPT !.st = "refreshing",
                                                      !.awaits = k,
                                                      !.refreshes = q.refreshes + 1,
                                                      !.last = resp]]
               /\ refreshInFlight' = k
               /\ posts' = posts \cup {k}
  ELSE /\ IF ShouldRetry(client, resp.status, q.attempt, maxRetries)
          THEN req' = [req EXCEPT ![r] =
                         [q EXCEPT !.st = "sleeping",
                                   !.last = [resp EXCEPT !.body = "none"],
                                   !.header = h,
                                   !.delay = RetryAfterMs(client, h, q.attempt)]]
          ELSE req' = [req EXCEPT ![r] = [q EXCEPT !.st = "failed", !.last = resp,
                                                   !.details = Details(resp)]]
       /\ UNCHANGED <<refreshInFlight, posts>>

\* the response of the request arrives
Respond(r, resp, h) ==
  /\ req[r].st = "sent"
  /\ IF resp.status = 200
     THEN /\ req' = [req EXCEPT ![r].st = "ok", ![r].last = resp]
          /\ UNCHANGED <<refreshInFlight, posts>>
     ELSE OnError(r, req[r], resp, h)
  /\ UNCHANGED <<client, maxRetries, tokens, tokenStore, tokenCache, auth,
                 refreshResponse, syncVars, quoteVars>>

\* the sleep of the backoff is over: request(..., retry, attempt + 1)
Wake(r, cached) ==
  /\ req[r].st = "sleeping"
  /\ cached => (client = "shopify" /\ auth = "client" /\ tokenCache)
  /\ req' = [req EXCEPT ![r] =
               Attempt([req[r] EXCEPT !.attempt = req[r].attempt + 1,
                                      !.header = NoHeader, !.delay = 0],
                       cached)]
  /\ UNCHANGED <<client, maxRetries, tokens, tokenStore, refreshInFlight,
                 posts, tokenCache, auth, refreshResponse, syncVars, quoteVars>>

\* The answer to _fetchClientCredentialsToken (Shopify, lines 67-100): with
\* an access_token the cache is filled and the request is sent; a 200 without
\* access_token throws an error that has no response; an error status goes
\* through the same catch block as the request's.
TokenResponse(r, resp, h, hasToken) ==
  /\ req[r].st = "token"
  /\ hasToken => resp.status = 200
  /\ IF resp.status = 200 /\ hasToken
     THEN /\ tokenCache' = TRUE
          /\ req' = [req EXCEPT ![r] = Sent(req[r], 0)]
          /\ UNCHANGED <<refreshInFlight, posts>>
     ELSE /\ OnError(r, req[r], IF resp.status = 200 THEN NoResp ELSE resp,
                     IF resp.status = 200 THEN NoHeader ELSE h)
          /\ UNCHANGED tokenCache
  /\ UNCHANGED <<client, maxRetries, tokens, tokenStore, auth, refreshResponse,
                 syncVars, quoteVars>>

\* (mutant) the refresh token is replaced by whatever the response has
RefreshedTokensMut(old, payload) ==
  [accessToken |-> payload.access_token,
   refreshToken |-> payload.refresh_token]

\* this.tokens after a refresh response with access_token (lines 124-127)
RefreshedTokens(old, payload) ==
  [accessToken |-> payload.access_token,
   refreshToken |-> IF payload.refresh_token # 0
                    THEN payload.refresh_token
                    ELSE old.refreshToken]

\* The refresh call of promise k is answered with an access_token (lines
\* 117-130, 140-142): the tokens are replaced (the refresh token only when
\* rotated) and persisted, refreshInFlight is cleared, and every call
\* awaiting the promise sends its request again.  (The token store path is
\* set by config.js and the write is taken to succeed.)
RefreshOk(k, rotated) ==
  /\ k \in posts
  /\ LET payload == [status |-> 200,
                     access_token |-> tokens.accessToken + 1,
                     refresh_token |-> IF rotated THEN tokens.refreshToken + 1
                                       ELSE 0]
         t == RefreshedTokens(tokens, payload)
     IN /\ refreshResponse' = payload
        /\ tokens' = t
        /\ tokenStore' = t
        /\ req' = [r \in Reqs |->
                     IF req[r].st = "refreshing" /\ req[r].awaits = k
                     THEN Resent(req[r], t.accessToken)
                     ELSE req[r]]
  /\ refreshInFlight' = 0
  /\ posts' = posts \ {k}
  /\ UNCHANGED <<client, maxRetries, tokenCache, auth, syncVars, quoteVars>>

\* the answers that make a refresh fail: a response without access_token
\* (here one that has a refresh_token), an error status, no response
RefreshFailures ==
  {[status |-> 200, access_token |-> 0, refresh_token |-> tokens.refreshToken + 1],
   [status |-> 500, access_token |-> 0, refresh_token |-> 0],
   NoRefreshResponse}

\* (mutant) a call waiting for a refresh that failed retries with backoff
RejectedMut(q) ==
  [q EXCEPT !.st = "sleeping", !.awaits = 0,
            !.delay = RetryDelayMs(client) * 2 ^ q.attempt]

\* await this._refreshToken() throws (line 167): the call throws that error,
\* which has no details
Rejected(q) == [q EXCEPT !.st = "failed", !.awaits = 0]

\* The refresh call of promise k fails (lines 119-121, 131-142): the error is
\* thrown again, refreshInFlight is cleared, and every call awaiting the
\* promise throws that error.
RefreshFail(k, payload) ==
  /\ k \in posts
  /\ refreshResponse' = payload
  /\ req' = [r \in Reqs |->
               IF req[r].st = "refreshing" /\ req[r].awaits = k
               THEN Rejected(req[r])
               ELSE req[r]]
  /\ refreshInFlight' = 0
  /\ posts' = posts \ {k}
  /\ UNCHANGED <<client, maxRetries, tokens, tokenStore, tokenCache, auth,
                 syncVars, quoteVars>>

\* the values of maxRetries the constructor accepts: any integer (a negative
\* one included), here up to MaxRetriesBound
RetryBudgets == {-1} \cup (0..MaxRetriesBound)

\* a client of one of the three classes after its constructor
InitClient ==
  /\ InitSync
  /\ QuoteOff
  /\ client \in Clients
  /\ maxRetries \in RetryBudgets
  /\ tokens = IF client = "webkul"
              THEN [accessToken |-> 1, refreshToken |-> 1] ELSE NoTokens
  /\ tokenStore = NoTokens
  /\ refreshInFlight = 0
  /\ posts = {}
  /\ tokenCache = FALSE
  /\ auth \in IF client = "shopify" THEN {"admin", "client", "none"} ELSE {"none"}
  /\ refreshResponse = NoRefreshResponse
  /\ req = [r \in Reqs |-> IdleReq]

NextClient ==
  \/ \E r \in Reqs, cached \in BOOLEAN : Call(r, cached)
  \/ \E r \in Reqs, resp \in Responses :
       \E h \in HeadersOf(resp) : Respond(r, resp, h)
  \/ \E r \in Reqs, cached \in BOOLEAN : Wake(r, cached)
  \/ \E r \in Reqs, resp \in Responses, hasToken \in BOOLEAN :
       \E h \in HeadersOf(resp) :
       TokenResponse(r, resp, h, hasToken)
  \/ \E k \in posts, rotated \in BOOLEAN : RefreshOk(k, rotated)
  \/ \E k \in posts, payload \in RefreshFailures : RefreshFail(k, payload)

(***************************************************************************)
(* Properties of the clients.                                              *)
(***************************************************************************)

\* the refresh calls in flight are exactly the one refreshInFlight names
OneInFlight ==
  /\ Cardinality(posts) <= 1
  /\ posts = IF refreshInFlight = 0 THEN {} ELSE {refreshInFlight}

\* C8: at any time at most one Webkul token-refresh HTTP call is in flight
\* for a client instance; a request that receives 401 while a refresh is in
\* flight issues no refresh call of its own (the set of calls in flight is
\* unchanged and the request awaits the call in flight), and a request that
\* awaits a refresh stays waiting while that call is pending and resumes only
\* in the step in which that same call settles.
C8_SingleFlight ==
  [][ /\ OneInFlight
      /\ OneInFlight'
      /\ \A r \in Reqs :
           /\ (req[r].st = "sent" /\ req'[r].st = "refreshing" /\ posts # {})
                => /\ posts' = posts
                   /\ req'[r].awaits \in posts
                   /\ req'[r].refreshes = req[r].refreshes
           /\ (req[r].st = "refreshing" /\ req'[r].st # "refreshing")
                => /\ req[r].awaits \in posts
                   /\ req[r].awaits \notin posts'
           /\ req'[r].st = "refreshing" => req'[r].awaits \in posts'
    ]_vars

\* two requests wait for the same refresh call, which one of them started
C8_Witness ==
  \E r1, r2 \in Reqs :
    /\ r1 # r2
    /\ req[r1].st = "refreshing"
    /\ req[r2].st = "refreshing"
    /\ req[r1].awaits = req[r2].awaits
    /\ posts = {req[r1].awaits}
    /\ req[r1].refreshes = 1
    /\ req[r2].refreshes = 0

\* C9: after a 401 followed by a successful refresh the Webkul request is
\* sent again exactly once, with the refreshed access token, with the attempt
\* counter unchanged and with no further refresh allowed; after a failed
\* refresh it is not sent again; a request is sent again in this way at most
\* once, and a 401 on the request sent again starts no refresh and ends the
\* call with the wrapped error.
C9_ResentOnce ==
  [][ \A r \in Reqs :
        /\ req[r].resends <= 1
        /\ req'[r].resends <= 1
        /\ req'[r].resends # req[r].resends => req[r].st = "refreshing"
        /\ (req[r].st = "refreshing" /\ req[r].awaits \notin posts'
              /\ tokens' # tokens)
             => req'[r].st = "sent"
        /\ (req[r].st = "refreshing" /\ req'[r].st = "sent")
             => /\ tokens'.accessToken # tokens.accessToken
                /\ req'[r].token = tokens'.accessToken
                /\ req'[r].attempt = req[r].attempt
                /\ req'[r].sends = req[r].sends + 1
                /\ req'[r].resends = req[r].resends + 1
                /\ ~req'[r].retry
        /\ (req[r].st = "refreshing" /\ req'[r].st \notin {"refreshing", "sent"})
             => /\ req'[r].st = "failed"
                /\ req'[r].sends = req[r].sends
                /\ tokens' = tokens
        /\ (req[r].st = "sent" /\ req[r].resends = 1 /\ req'[r].last.status = 401)
             => /\ req'[r].st = "failed"
                /\ req'[r].details = Details(req'[r].last)
                /\ req'[r].refreshes = req[r].refreshes
                /\ posts' = posts
                /\ refreshInFlight' = refreshInFlight
    ]_vars

\* a request was retried with backoff, got a 401, was sent again after the
\* refresh and failed with the 401 of that send
C9_Witness ==
  \E r \in Reqs :
    /\ req[r].st = "failed"
    /\ req[r].resends = 1
    /\ req[r].attempt >= 1
    /\ req[r].last.status = 401
    /\ req[r].details.wrapped
    /\ req[r].details.status = 401
    /\ tokens.accessToken = req[r].token

\* the statuses the clients retry
Retryable(status) == status = 429 \/ status = 408 \/ status >= 500

\* the retries a client with this maxRetries makes at most
Budget == IF maxRetries < 0 THEN 0 ELSE maxRetries

Measure(q) ==
  CASE q.st \in {"ok", "failed"} -> 0
    [] q.st = "idle" -> 4 * Budget + 8
    [] OTHER ->
         4 * (Budget - q.attempt)
           + (IF q.retry /\ client = "webkul" THEN 4 ELSE 0)
           + (CASE q.st = "token" -> 3
                [] q.st = "sent" -> 2
                [] OTHER -> 1)

\* what holds of a call in every state: its retries are within the budget,
\* every send is the first, a retry or the one after a refresh, and a call
\* that failed with the wrapped error failed with the status and the body of
\* its last response, and, if that status is one the client retries, only
\* when the budget was used up
WithinBudget(q) ==
  /\ q.attempt <= Budget
  /\ Measure(q) >= 0
  /\ q.sends - q.resends <= q.attempt + 1
  /\ q.sends - q.resends <= Budget + 1
  /\ (q.st = "failed" /\ q.details.wrapped)
       => /\ q.details.status = q.last.status
          /\ q.details.data = q.last.body
          /\ Retryable(q.last.status) => q.attempt = Budget
  /\ (q.st = "failed" /\ Retryable(q.last.status)) => q.details.wrapped

C11_DelayIsRetryAfter ==
  \A r \in Reqs :
    req[r].st = "sleeping" =>
      LET h == req[r].header
      IN IF h.kind = "seconds"
         THEN req[r].delay = (IF h.v < 0 THEN 0 ELSE h.v * 1000)
         ELSE IF h.kind = "date"
         THEN req[r].delay = (IF h.v < 0 THEN 0 ELSE h.v)
         ELSE req[r].delay = RetryDelayMs(client) * 2 ^ req[r].attempt

\* an error the clients neither retry nor answer with a refresh
TerminalStatus(status) ==
  /\ ~Retryable(status)
  /\ ~(status = 401 /\ client = "webkul")

\* C12: an error response with a status other than 401 (Webkul only), 429,
\* 408 or 5xx, or a failure with no response at all, ends the call in the step
\* that handles it: no further send, no retry, no backoff delay, no refresh,
\* and the error thrown carries the status and the body of that response; a
\* call that has failed does nothing more.
C12_OtherFailuresTerminal ==
  [][ \A r \in Reqs :
        /\ (/\ req[r].st \in {"sent", "token"}
            /\ req'[r].st \in {"failed", "sleeping", "refreshing"}
            /\ TerminalStatus(req'[r].last.status))
             => /\ req'[r].st = "failed"
                /\ req'[r].sends = req[r].sends
                /\ req'[r].attempt = req[r].attempt
                /\ req'[r].delay = 0
                /\ req'[r].details.wrapped
                /\ req'[r].details.status = req'[r].last.status
                /\ req'[r].details.data = req'[r].last.body
                /\ posts' = posts
        /\ req[r].st = "failed" => req'[r] = req[r]
    ]_vars

\* one call failed on a 404 after its only send, another on a failure
\* without response
C12_Witness ==
  \E r1, r2 \in Reqs :
    /\ req[r1].st = "failed"
    /\ req[r1].last.status = 404
    /\ req[r1].sends = 1
    /\ req[r1].attempt = 0
    /\ req[r1].details = Details(req[r1].last)
    /\ req[r2].st = "failed"
    /\ req[r2].last = NoResp
    /\ req[r2].sends = 1
    /\ req[r2].details = Details(NoResp)

\* a token-refresh call settles in this step
RefreshSettles == posts' # posts /\ posts' \subseteq posts

\* the answer to the refresh call that settles has an access_token
RefreshSucceeds ==
  /\ RefreshSettles
  /\ refreshResponse'.status = 200
  /\ refreshResponse'.access_token # 0

\* C13: if a Webkul token refresh fails (error status, no response, or a
\* response without access_token), every request waiting on it fails in that
\* step without being sent again, without a backoff retry and without
\* starting another refresh, and the tokens in memory and in the token store
\* are unchanged.
C13_RefreshFailureTerminal ==
  [][ (RefreshSettles /\ ~RefreshSucceeds)
        => /\ tokens' = tokens
           /\ tokenStore' = tokenStore
           /\ posts' = {}
           /\ refreshInFlight' = 0
           /\ \A r \in Reqs :
                IF req[r].st = "refreshing" /\ req[r].awaits \notin posts'
                THEN /\ req'[r].st = "failed"
                     /\ req'[r].sends = req[r].sends
                     /\ req'[r].resends = req[r].resends
                     /\ req'[r].attempt = req[r].attempt
                     /\ req'[r].refreshes = req[r].refreshes
                     /\ req'[r].delay = 0
                ELSE req'[r] = req[r]
    ]_vars

\* two requests waited for a refresh that was answered without access_token:
\* both failed after their only send and no token changed
C13_Witness ==
  /\ refreshResponse.status = 200
  /\ refreshResponse.access_token = 0
  /\ tokens = [accessToken |-> 1, refreshToken |-> 1]
  /\ tokenStore = NoTokens
  /\ posts = {}
  /\ \A r \in Reqs :
       /\ req[r].st = "failed"
       /\ req[r].last.status = 401
       /\ req[r].sends = 1
       /\ req[r].resends = 0

Undefined == [t |-> "undefined", v |-> 0]

JsNull == [t |-> "null", v |-> 0]

NotANumber == [t |-> "string", v |-> 0]

Num(n) == [t |-> "number", v |-> n]

\* _toFiniteNumber: Number(null) is 0, Number(undefined) and Number of other
\* text are NaN
ToFiniteNumber(value) ==
  CASE value.t = "number" -> value
    [] value.t = "null" -> Num(0)
    [] OTHER -> JsNull

\* normalizePostalCode on the values used here: blank text gives ""
NormalizePostalCode(rawValue) == IF rawValue = " " THEN "" ELSE rawValue

\* the destinations of the requests
Destinations ==
  {[postal_code |-> "", latitude |-> Undefined, longitude |-> Undefined],
   [postal_code |-> " ", latitude |-> NotANumber, longitude |-> Num(107)],
   [postal_code |-> "", latitude |-> JsNull, longitude |-> JsNull],
   [postal_code |-> "", latitude |-> Num(-6), longitude |-> Undefined],
   [postal_code |-> "", latitude |-> Num(-6), longitude |-> Num(107)],
   [postal_code |-> "40111", latitude |-> Undefined, longitude |-> Undefined]}

\* a line item of a request; every item costs 50000 IDR (price is in
\* subunits), weighs 1000 grams and has quantity 1
Item(variant, requires) ==
  [variant_id |-> variant, requires_shipping |-> requires,
   price |-> 5000000, quantity |-> 1, grams |-> 1000]

\* the carts of the requests
Carts ==
  {<<>>,
   <<Item("v1", "false")>>,
   <<Item("", "true")>>,
   <<Item("v1", "undefined")>>,
   <<Item("", "true"), Item("v1", "true")>>,
   <<Item("v1", "true"), Item("v2", "true")>>}

\* the seller that Webkul has for a variant
SellerOf(variant) == IF variant = "v1" THEN "s1" ELSE "s2"

\* a payload that is not an object
InvalidRequest == [object |-> FALSE]

Requests ==
  {InvalidRequest}
    \cup {[object |-> TRUE, destination |-> d, items |-> c] :
            d \in Destinations, c \in Carts}

\* _isShippable
IsShippable(item) ==
  item.requires_shipping = "undefined" \/ item.requires_shipping = "true"

\* fromShopifySubunits
FromShopifySubunits(value) == value \div 100

\* toShopifySubunits (of a whole amount)
ToShopifySubunits(valueMajor) ==
  IF valueMajor * 100 > 0 THEN valueMajor * 100 ELSE 0

RECURSIVE SumSeq(_)
SumSeq(xs) == IF xs = <<>> THEN 0 ELSE Head(xs) + SumSeq(Tail(xs))

\* subtotalIdr (lines 793-796)
SubtotalIdr(shippableItems) ==
  SumSeq([i \in 1..Len(shippableItems) |->
            FromShopifySubunits(shippableItems[i].price)
              * shippableItems[i].quantity])

\* the (courierCode, serviceCode) pairs and the prices of the quotes
Couriers == {[courierCode |-> "jne", serviceCode |-> "reg"],
             [courierCode |-> "sicepat", serviceCode |-> "best"]}

Prices == {18000, 22000}

\* a quote of BiteshipClient.getRates
Rate(c, p) ==
  [courierCode |-> c.courierCode, serviceCode |-> c.serviceCode, price |-> p]

\* a third service, quoted at one price
Express == [courierCode |-> "anteraja", serviceCode |-> "next"]

ExpressPrice == 20000

Rates == {Rate(c, p) : c \in Couriers, p \in Prices}
           \cup {Rate(Express, ExpressPrice)}

\* the answers of getRates: up to MaxQuotes quotes, no quote listed twice
\* (a repeated identical quote is dropped by the deduplication unseen)
RateLists ==
  UNION {{l \in [1..n -> Rates] : \A i, j \in 1..n : l[i] = l[j] => i = j} :
           n \in 0..MaxQuotes}

\* _rateKey
RateKey(rate) == <<rate.courierCode, rate.serviceCode>>

\* the position of the entry with this key in a Map's entries, 0 if none
RECURSIVE IndexOfKey(_, _, _)
IndexOfKey(entries, key, i) ==
  IF i > Len(entries) THEN 0
  ELSE IF RateKey(entries[i]) = key THEN i
  ELSE IndexOfKey(entries, key, i + 1)

\* (mutant) the quote seen last is kept
KeepsMut(existing, rate) == TRUE

\* !existing || rate.price < existing.price (line 505), for an existing entry
Keeps(existing, rate) == rate.price < existing.price

\* The Map deduped of a group (lines 501-508), as the sequence of its values
\* in insertion order: a key that is set again keeps its place.
RECURSIVE Dedupe(_, _)
Dedupe(rates, deduped) ==
  IF rates = <<>> THEN deduped
  ELSE LET rate == Head(rates)
           i == IndexOfKey(deduped, RateKey(rate), 1)
       IN Dedupe(Tail(rates),
                 IF i = 0 THEN Append(deduped, rate)
                 ELSE IF Keeps(deduped[i], rate)
                      THEN [deduped EXCEPT ![i] = rate]
                      ELSE deduped)

\* the place of a variant id in the order of localeCompare
VariantRank(variantId) ==
  CASE variantId = "" -> 0
    [] variantId = "v1" -> 1
    [] OTHER -> 2

\* the field a list is sorted by: the price of a quote, the total of a rate,
\* the variant id of an item of the cache key
SortKey(x, field) ==
  CASE field = "price" -> x.price
    [] field = "variant_id" -> VariantRank(x.variant_id)
    [] OTHER -> x.totalPriceIdr

\* Array.prototype.sort with the comparator a.f - b.f: a stable sort,
\* written as insertion of each element after the ones not greater
RECURSIVE InsertBy(_, _, _)
InsertBy(x, sorted, field) ==
  IF sorted = <<>> THEN <<x>>
  ELSE IF SortKey(Head(sorted), field) <= SortKey(x, field)
       THEN <<Head(sorted)>> \o InsertBy(x, Tail(sorted), field)
       ELSE <<x>> \o sorted

RECURSIVE SortBy(_, _)
SortBy(xs, field) ==
  IF xs = <<>> THEN <<>>
  ELSE InsertBy(xs[Len(xs)], SortBy(SubSeq(xs, 1, Len(xs) - 1), field), field)

\* (mutant) a group's first quote stands for its cheapest
CheapestMut(byKey) == byKey[1]

\* a group's cheapest quote (line 514), for a group that has quotes
Cheapest(byKey) == SortBy(byKey, "price")[1]

\* normalizedGroups (lines 500-516)
NormalizedGroups(groupRates) ==
  [g \in 1..Len(groupRates) |->
     [sellerId |-> groupRates[g].sellerId,
      byKey |-> Dedupe(groupRates[g].rates, <<>>)]]

\* (mutant) no key counts as common
IsCommonMut(groups, key) == FALSE

\* keys.has(key) for the keys of every group (line 526)
IsCommon(groups, key) ==
  \A g \in 1..Len(groups) : IndexOfKey(groups[g].byKey, key, 1) # 0

\* commonKeys (lines 518-527): the keys of the first group that every other
\* group has, in the order of the first group
CommonKeys(groups) ==
  IF groups = <<>> THEN <<>>
  ELSE LET first == [i \in 1..Len(groups[1].byKey) |-> RateKey(groups[1].byKey[i])]
           InAll(key) == IsCommon(groups, key)
       IN SelectSeq(first, InAll)

\* handlingFee and freeThreshold (lines 529-530)
HandlingFee == IF shipping.handlingFeeIdr > 0 THEN shipping.handlingFeeIdr ELSE 0

FreeThreshold ==
  IF shipping.freeThresholdIdr > 0 THEN shipping.freeThresholdIdr ELSE 0

\* (mutant) free shipping only above the threshold
IsFreeMut(subtotalIdr) == FreeThreshold > 0 /\ subtotalIdr > FreeThreshold

\* freeThreshold > 0 && subtotalIdr >= freeThreshold (lines 558, 594)
IsFree(subtotalIdr) == FreeThreshold > 0 /\ subtotalIdr >= FreeThreshold

\* the total of a rate: the sum of the groups' prices and the fee, or 0
TotalPrice(prices, subtotalIdr) ==
  IF IsFree(subtotalIdr) THEN 0 ELSE SumSeq(prices) + HandlingFee

\* normalizedGroups.some((group) => !group.cheapest) (line 578)
NoRateAtAll(groups) == \E g \in 1..Len(groups) : groups[g].byKey = <<>>

\* the aggregated rate of a common key (lines 535-571)
CommonRate(groups, key, subtotalIdr) ==
  [courierCode |-> key[1],
   serviceCode |-> key[2],
   totalPriceIdr |->
     TotalPrice([g \in 1..Len(groups) |->
                   groups[g].byKey[IndexOfKey(groups[g].byKey, key, 1)].price],
                subtotalIdr),
   fallback |-> FALSE]

\* the mixed-cheapest rate (lines 582-609)
MixedRate(groups, subtotalIdr) ==
  [courierCode |-> "mixed",
   serviceCode |-> "cheapest",
   totalPriceIdr |->
     TotalPrice([g \in 1..Len(groups) |-> Cheapest(groups[g].byKey).price],
                subtotalIdr),
   fallback |-> TRUE]

\* _aggregate from normalizedGroups and commonKeys on (lines 532-610)
AggregateKeys(groups, keys, subtotalIdr) ==
  IF Len(keys) > 0
  THEN [k \in 1..Len(keys) |-> CommonRate(groups, keys[k], subtotalIdr)]
  ELSE IF NoRateAtAll(groups) THEN <<>>
  ELSE <<MixedRate(groups, subtotalIdr)>>

AggregateGroups(groups, subtotalIdr) ==
  AggregateKeys(groups, CommonKeys(groups), subtotalIdr)

\* _aggregate (lines 499-610)
Aggregate(groupRates, subtotalIdr) ==
  AggregateGroups(NormalizedGroups(groupRates), subtotalIdr)

\* (mutant) the cap keeps the last entries
SliceMut(xs, n) ==
  SubSeq(xs, Len(xs) - (IF n < Len(xs) THEN (IF n < 0 THEN 0 ELSE n) ELSE Len(xs)) + 1,
         Len(xs))

\* Array.prototype.slice(0, n): the first n elements; for a negative n all
\* but the last -n
Slice(xs, n) ==
  LET end == IF n < 0 THEN (IF Len(xs) + n < 0 THEN 0 ELSE Len(xs) + n)
             ELSE IF n > Len(xs) THEN Len(xs) ELSE n
  IN SubSeq(xs, 1, end)

\* toUpperCase of the codes of Couriers
Upper(code) ==
  CASE code = "jne" -> "JNE"
    [] code = "reg" -> "REG"
    [] code = "sicepat" -> "SICEPAT"
    [] code = "best" -> "BEST"
    [] code = "anteraja" -> "ANTERAJA"
    [] code = "next" -> "NEXT"
    [] OTHER -> code

\* the service_code and total_price of _toShopifyRate
ToShopifyRate(rate, isFallback) ==
  [service_code |->
     IF isFallback THEN "BSH_MULTI_CHEAPEST"
     ELSE "BSH_" \o Upper(rate.courierCode) \o "_" \o Upper(rate.serviceCode),
   total_price |-> ToShopifySubunits(rate.totalPriceIdr)]

\* truthy: true for the boolean true, false for false and for undefined
Truthy(input) == input = "true"

\* Number.parseInt(v || d, 10) || d on a whole number: 0 gives d
OrElse(v, d) == IF v = 0 THEN d ELSE v

\* _buildRateCacheKey (lines 322-360): the normalized destination and the
\* items, each reduced to variant id, quantity, grams, price and
\* truthy(requires_shipping), sorted by variant id (the currency and the
\* courier allow-list are those of the configuration in every request)
BuildRateCacheKey(rateRequest) ==
  [destinationPostalCode |->
     NormalizePostalCode(rateRequest.destination.postal_code),
   destinationLatitude |-> ToFiniteNumber(rateRequest.destination.latitude),
   destinationLongitude |-> ToFiniteNumber(rateRequest.destination.longitude),
   items |->
     SortBy([i \in 1..Len(rateRequest.items) |->
               [variant_id |-> rateRequest.items[i].variant_id,
                quantity |-> OrElse(rateRequest.items[i].quantity, 1),
                grams |-> rateRequest.items[i].grams,
                price |-> rateRequest.items[i].price,
                requires_shipping |->
                  Truthy(rateRequest.items[i].requires_shipping)]],
            "variant_id")]

\* the response of the callback for a result of calculate (app.js 318)
Reply(rates) == [status |-> 200, body |-> "rates", rates |-> rates]

\* (mutant) a failed calculate is answered with 200 and an empty list even
\* when useBackupOnError is set
FailureReplyMut == Reply(<<>>)

\* the response of the callback when calculate threw (app.js 337-341)
FailureReply ==
  IF shipping.useBackupOnError
  THEN [status |-> 500, body |-> "error", rates |-> <<>>]
  ELSE Reply(<<>>)

\* calculate returns and the callback answers with the rates
Returns(q, rates, reason) ==
  [q EXCEPT !.pc = "done", !.rates = rates, !.reason = reason,
            !.log = "quote", !.http = Reply(rates)]

\* calculate throws and the callback answers from its catch block
Throws(q, gap) ==
  [q EXCEPT !.pc = "done", !.threw = TRUE, !.gap = gap,
            !.log = "failure", !.http = FailureReply]

\* the rate cache's entry for a key, as a set (empty if there is none)
Cached(key) == {e \in rateCache : e.key = key}

RECURSIVE Unique(_, _)
Unique(xs, seen) ==
  IF xs = <<>> THEN seen
  ELSE Unique(Tail(xs),
              IF \E i \in 1..Len(seen) : seen[i] = Head(xs)
              THEN seen ELSE Append(seen, Head(xs)))

HasVariantId(item) == item.variant_id # ""

\* The callback up to the first await of calculate (app.js 277-294,
\* calculate lines 612-693): the HMAC check, then the checks of the payload,
\* the shippable items and the destination, then the rate cache.  q0 holds
\* the locals of a fresh call.
Begin(q0, rateRequest, verified) ==
  LET q == [q0 EXCEPT !.request = rateRequest]
      shippableItems ==
        IF rateRequest.object THEN SelectSeq(rateRequest.items, IsShippable)
        ELSE <<>>
  IN IF ~verified
     THEN quote' = [q0 EXCEPT !.pc = "done", !.reason = "invalid_hmac",
                              !.http = [status |-> 401, body |-> "error",
                                        rates |-> <<>>]]
     ELSE IF ~rateRequest.object
     THEN quote' = Returns(q, <<>>, "invalid_payload")
     ELSE IF Len(shippableItems) = 0
     THEN quote' = Returns(q, <<>>, "no_shippable_items")
     ELSE LET key == BuildRateCacheKey(rateRequest)
              hasDestinationCoordinates ==
                /\ key.destinationLatitude # JsNull
                /\ key.destinationLongitude # JsNull
          IN IF key.destinationPostalCode = "" /\ ~hasDestinationCoordinates
             THEN quote' = Returns(q, <<>>, "missing_destination_location")
             ELSE IF Cached(key) # {}
             THEN quote' = Returns(q, (CHOOSE e \in Cached(key) : TRUE).rates,
                                   "rate_cache")
             ELSE IF SelectSeq(shippableItems, HasVariantId) = <<>>
             THEN quote' = Returns(q, <<>>, "missing_variant_ids")
             ELSE quote' = [q EXCEPT !.pc = "variants"]

\* the first carrier-service callback of the process
CalcStart(rateRequest, verified) ==
  /\ quote.pc = "idle"
  /\ Begin(quote, rateRequest, verified)
  /\ UNCHANGED <<shipping, rateCache, variantCache, sellerCache, originStore,
                 utilVars, syncVars, clientVars>>

\* a further carrier-service callback, after the previous one was answered
CalcAgain(rateRequest, verified) ==
  /\ quote.pc = "done"
  /\ quote.calls + 1 < MaxCalls
  /\ Begin([IdleQuote EXCEPT !.calls = quote.calls + 1], rateRequest, verified)
  /\ UNCHANGED <<shipping, rateCache, variantCache, sellerCache, originStore,
                 utilVars, syncVars, clientVars>>

ShippableItems(q) == SelectSeq(q.request.items, IsShippable)

\* uniqueVariantIds (line 683)
UniqueVariantIds(q) ==
  Unique([i \in 1..Len(SelectSeq(ShippableItems(q), HasVariantId)) |->
            SelectSeq(ShippableItems(q), HasVariantId)[i].variant_id], <<>>)

\* uniqueSellerIds (line 701): the sellers of the mappings
UniqueSellerIds(variants) ==
  Unique([i \in 1..Len(variants) |-> SellerOf(variants[i])], <<>>)

\* the variant id that the loop of lines 695-698 looks up next
NextVariant == UniqueVariantIds(quote)[Len(quote.variants) + 1]

\* _getVariantMapping resolves (lines 362-372, loop 694-698): from the
\* variant cache without a call, else by a Webkul call whose result is put
\* into the cache.  After the last variant the origin loop starts.
VariantResolved ==
  /\ quote.pc = "variants"
  /\ LET variants == Append(quote.variants, NextVariant)
     IN quote' = [quote EXCEPT
          !.variants = variants,
          !.webkulCalls = IF NextVariant \in variantCache
                          THEN quote.webkulCalls ELSE quote.webkulCalls + 1,
          !.pc = IF Len(variants) = Len(UniqueVariantIds(quote))
                 THEN "origins" ELSE "variants",
          !.sellers = IF Len(variants) = Len(UniqueVariantIds(quote))
                      THEN UniqueSellerIds(variants) ELSE <<>>]
  /\ variantCache' = variantCache \cup {NextVariant}
  /\ UNCHANGED <<shipping, rateCache, sellerCache, originStore,
                 utilVars, syncVars, clientVars>>

\* resolveVariantToSeller rejects (no variant, no product, no seller_id, or a
\* failed request; webkul-client.js 316-328): _getVariantMapping has no
\* catch, so calculate throws
VariantFailed ==
  /\ quote.pc = "variants"
  /\ NextVariant \notin variantCache
  /\ quote' = Throws([quote EXCEPT !.webkulCalls = quote.webkulCalls + 1],
                     "variant")
  /\ UNCHANGED <<shipping, rateCache, variantCache, sellerCache, originStore,
                 utilVars, syncVars, clientVars>>

\* persisted?.postalCode, cached?.postalCode (lines 378, 383)
HasPostalCode(origin) == origin.postalCode # ""

\* (mutant) the cache is consulted before the persisted store
StoredOriginMut(sellerId) ==
  IF HasPostalCode(sellerCache[sellerId])
  THEN [sellerCache[sellerId] EXCEPT !.via = "cached"]
  ELSE IF HasPostalCode(originStore[sellerId])
  THEN [originStore[sellerId] EXCEPT !.via = "persisted"]
  ELSE NoOrigin

\* the origin that _getSellerOrigin returns without a lookup (lines 377-385):
\* the persisted entry if it has a postal code, else the cached one if it
\* has a postal code, else none
StoredOrigin(sellerId) ==
  IF HasPostalCode(originStore[sellerId])
  THEN [originStore[sellerId] EXCEPT !.via = "persisted"]
  ELSE IF HasPostalCode(sellerCache[sellerId])
  THEN [sellerCache[sellerId] EXCEPT !.via = "cached"]
  ELSE NoOrigin

\* the postal code that Webkul has for a seller
WebkulPostalCode(sellerId) == IF sellerId = "s1" THEN "40001" ELSE "40002"

\* the result of resolveSellerOrigin (webkul-client.js 375-419): it always
\* carries a postal code
Resolved(sellerId) ==
  [postalCode |-> WebkulPostalCode(sellerId), source |-> "webkul", via |-> "none"]

\* the seller whose origin the loop of lines 704-707 resolves next
NextSeller == quote.sellers[Len(quote.origins) + 1]

\* an item of the request is skipped or grouped (lines 711-735): skipped
\* without a mapping, skipped when its seller's origin has no postal code
\* (the origins that _getSellerOrigin returns all have one, so the
\* coordinates never decide)
SkipReason(q, item) ==
  IF item.variant_id = "" THEN "variant_mapping_not_found"
  ELSE IF \E i \in 1..Len(q.sellers) :
            /\ q.sellers[i] = SellerOf(item.variant_id)
            /\ ~HasPostalCode(q.origins[i])
  THEN "seller_origin_not_found"
  ELSE "none"

\* the grouping of the shippable items by seller (lines 708-763), after the
\* last origin: skippedItems, sellerGroups in the order of the first item of
\* each seller, and the return without a group
Grouped(q) ==
  LET items == ShippableItems(q)
      Skipped(item) == SkipReason(q, item) # "none"
      Kept(item) == SkipReason(q, item) = "none"
      skipped == SelectSeq(items, Skipped)
      kept == SelectSeq(items, Kept)
      groups == Unique([i \in 1..Len(kept) |-> SellerOf(kept[i].variant_id)], <<>>)
      r == [q EXCEPT
              !.skippedItems =
                 [i \in 1..Len(skipped) |->
                    [variantId |-> skipped[i].variant_id,
                     reason |-> SkipReason(q, skipped[i])]],
              !.sellerGroups = groups]
  IN IF groups = <<>> THEN Returns(r, <<>>, "no_valid_seller_groups")
     ELSE [r EXCEPT !.pc = "rates"]

\* the loop of the origins goes on, or the items are grouped
AfterOrigin(q) == IF Len(q.origins) < Len(q.sellers) THEN q ELSE Grouped(q)

\* _getSellerOrigin returns an origin (lines 374-391): the stored one without
\* a lookup, else the result of a Webkul lookup, which is put into the
\* seller cache and into the persisted store
OriginResolved ==
  /\ quote.pc = "origins"
  /\ IF StoredOrigin(NextSeller) # NoOrigin
     THEN /\ quote' = AfterOrigin([quote EXCEPT
                        !.origins = Append(quote.origins, StoredOrigin(NextSeller))])
          /\ UNCHANGED <<sellerCache, originStore>>
     ELSE /\ quote' = AfterOrigin([quote EXCEPT
                        !.origins = Append(quote.origins,
                                           [Resolved(NextSeller) EXCEPT !.via = "live"]),
                        !.webkulCalls = quote.webkulCalls + 1])
          /\ sellerCache' = [sellerCache EXCEPT ![NextSeller] = Resolved(NextSeller)]
          /\ originStore' = [originStore EXCEPT ![NextSeller] = Resolved(NextSeller)]
  /\ UNCHANGED <<shipping, rateCache, variantCache, utilVars, syncVars, clientVars>>

\* resolveSellerOrigin rejects (lines 392-416): the default origin postal
\* code stands in if one is configured, else calculate throws
OriginFailed ==
  /\ quote.pc = "origins"
  /\ StoredOrigin(NextSeller) = NoOrigin
  /\ LET q == [quote EXCEPT !.webkulCalls = quote.webkulCalls + 1]
     IN quote' =
          IF shipping.defaultOriginPostalCode # ""
          THEN AfterOrigin([q EXCEPT
                 !.origins = Append(quote.origins,
                                    [postalCode |-> shipping.defaultOriginPostalCode,
                                     source |-> "default_origin",
                                     via |-> "default"])])
          ELSE Throws(q, "origin")
  /\ UNCHANGED <<shipping, rateCache, variantCache, sellerCache, originStore,
                 utilVars, syncVars, clientVars>>

\* the end of calculate (lines 803-839): the capped rates are turned into
\* Shopify rates, cached and returned
Finish(biteshipResults, subtotalIdr, aggregated, aggregatedRates, shopifyRates) ==
  /\ quote' = [quote EXCEPT
                 !.pc = "done",
                 !.biteshipCalls = quote.biteshipCalls + Len(biteshipResults),
                 !.biteshipResults = biteshipResults,
                 !.subtotalIdr = subtotalIdr,
                 !.aggregated = aggregated,
                 !.aggregatedRates = aggregatedRates,
                 !.rates = shopifyRates,
                 !.reason = "calculated",
                 !.log = "quote",
                 !.http = Reply(shopifyRates)]
  /\ rateCache' = {e \in rateCache : e.key # BuildRateCacheKey(quote.request)}
                    \cup {[key |-> BuildRateCacheKey(quote.request),
                           rates |-> shopifyRates]}

\* aggregatedRates.map(_toShopifyRate) (lines 803-805)
ShopifyRates(aggregatedRates) ==
  [i \in 1..Len(aggregatedRates) |->
     ToShopifyRate(aggregatedRates[i], aggregatedRates[i].fallback)]

\* .sort(...).slice(0, maxRates) of the result of _aggregate (lines 798-800)
AggregatedRates(aggregated) ==
  Slice(SortBy(aggregated, "totalPriceIdr"), shipping.maxRates)

Calculated(biteshipResults, subtotalIdr, aggregated, aggregatedRates) ==
  Finish(biteshipResults, subtotalIdr, aggregated, aggregatedRates,
         ShopifyRates(aggregatedRates))

Capped(biteshipResults, subtotalIdr, aggregated) ==
  Calculated(biteshipResults, subtotalIdr, aggregated,
             AggregatedRates(aggregated))

Received(biteshipResults, subtotalIdr) ==
  Capped(biteshipResults, subtotalIdr,
         Aggregate(biteshipResults, subtotalIdr))

\* The getRates calls of all seller groups are answered (lines 765-839): the
\* answers are aggregated, sorted by total, capped at maxRates, turned into
\* Shopify rates, cached and returned.
RatesReceived(answers) ==
  /\ quote.pc = "rates"
  /\ Len(answers) = Len(quote.sellerGroups)
  /\ Received([g \in 1..Len(answers) |->
                [sellerId |-> quote.sellerGroups[g], rates |-> answers[g]]],
              SubtotalIdr(ShippableItems(quote)))
  /\ UNCHANGED <<shipping, variantCache, sellerCache, originStore,
                 utilVars, syncVars, clientVars>>

\* a getRates call rejects: Promise.all rejects and calculate throws
RatesFailed ==
  /\ quote.pc = "rates"
  /\ quote' = Throws([quote EXCEPT !.biteshipCalls = quote.biteshipCalls
                                                       + Len(quote.sellerGroups)],
                     "rates")
  /\ UNCHANGED <<shipping, rateCache, variantCache, sellerCache, originStore,
                 utilVars, syncVars, clientVars>>

\* the postal code of an origin-sync event
SyncPostalCode(sellerId) == IF sellerId = "s1" THEN "41001" ELSE "41002"

\* An origin-sync event for a seller: the seller-origin Flow webhook or the
\* admin endpoint (app.js 345-386, 443-463).  A payload without seller id or
\* postal code is refused with 422; a valid one is written to the persisted
\* store and to the seller cache.
OriginSync(sellerId, valid) ==
  /\ IF valid
     THEN /\ originStore' =
               [originStore EXCEPT ![sellerId] =
                  [postalCode |-> SyncPostalCode(sellerId), source |-> "sync",
                   via |-> "none"]]
          /\ sellerCache' =
               [sellerCache EXCEPT ![sellerId] =
                  [postalCode |-> SyncPostalCode(sellerId), source |-> "sync",
                   via |-> "none"]]
     ELSE UNCHANGED <<originStore, sellerCache>>
  /\ UNCHANGED <<shipping, quote, rateCache, variantCache,
                 utilVars, syncVars, clientVars>>

\* The TTL of the entries of one of the service's caches elapses (or they
\* are evicted): MemoryCache.get answers null for them from then on.
Expire(name) ==
  /\ CASE name = "rate" ->
            /\ rateCache # {}
            /\ rateCache' = {}
            /\ UNCHANGED <<variantCache, sellerCache>>
       [] name = "variant" ->
            /\ variantCache # {}
            /\ variantCache' = {}
            /\ UNCHANGED <<rateCache, sellerCache>>
       [] OTHER ->
            /\ \E s \in QuoteSellers : sellerCache[s] # NoOrigin
            /\ sellerCache' = [s \in QuoteSellers |-> NoOrigin]
            /\ UNCHANGED <<rateCache, variantCache>>
  /\ UNCHANGED <<shipping, quote, originStore, utilVars, syncVars, clientVars>>

\* the values of shipping.maxRates: any integer of the environment
RateCaps == {-1} \cup (0..MaxRatesBound)

\* a configuration without default origin, answering failures with 200
Shipping(fee, threshold, cap) ==
  [handlingFeeIdr |-> fee, freeThresholdIdr |-> threshold, maxRates |-> cap,
   defaultOriginPostalCode |-> "", useBackupOnError |-> FALSE]

\* the configurations: every fee without free shipping, a threshold at and
\* above the subtotal of two items with and without a cap that truncates,
\* and every cap
ShippingConfigs ==
  {Shipping(f, 0, MaxRatesBound) : f \in {-5000, 0, 5000}}
    \cup {Shipping(5000, t, m) : t \in {100000, 150000}, m \in {1, MaxRatesBound}}
    \cup {Shipping(0, 0, m) : m \in RateCaps}

\* a ShippingService with its configuration, empty caches and an empty store
InitQuote ==
  /\ InitSync
  /\ ClientOff
  /\ CacheOff
  /\ OrderOff
  /\ shipping \in ShippingConfigs
  /\ quote = IdleQuote
  /\ rateCache = {}
  /\ variantCache = {}
  /\ sellerCache = [s \in QuoteSellers |-> NoOrigin]
  /\ originStore = [s \in QuoteSellers |-> NoOrigin]

\* the answers of the seller groups' getRates calls
Answers(n) == [1..n -> RateLists]

NextQuote ==
  \/ \E rateRequest \in Requests, verified \in BOOLEAN :
       CalcStart(rateRequest, verified)
  \/ VariantResolved
  \/ VariantFailed
  \/ OriginResolved
  \/ OriginFailed
  \/ /\ quote.pc = "rates"
     /\ \E answers \in Answers(Len(quote.sellerGroups)) : RatesReceived(answers)
  \/ RatesFailed

\* the configurations of the service that answers several callbacks: with
\* and without a default origin, with either answer to a failure
CallConfigs ==
  {[Shipping(0, 0, MaxRatesBound) EXCEPT
      !.defaultOriginPostalCode = d, !.useBackupOnError = b] :
     d \in {"", "40000"}, b \in BOOLEAN}

\* the requests of those callbacks: one destination, and carts of which two
\* differ only in requires_shipping being false or absent
CallRequests ==
  {[object |-> TRUE,
    destination |-> [postal_code |-> "40111", latitude |-> Undefined,
                     longitude |-> Undefined],
    items |-> c] :
     c \in {<<Item("v1", "false")>>,
            <<Item("v1", "undefined")>>,
            <<Item("", "true"), Item("v1", "true")>>,
            <<Item("v1", "true"), Item("v2", "true")>>}}

\* the answers of getRates to those callbacks
CallRateLists ==
  {<<>>, <<Rate(Express, ExpressPrice)>>}

\* the persisted store as loaded from its file: empty, or with an entry
\* without postal code for the first seller
StoredAtStart ==
  {[s \in QuoteSellers |-> NoOrigin],
   [s \in QuoteSellers |->
      IF s = "s1" THEN [postalCode |-> "", source |-> "file", via |-> "none"]
      ELSE NoOrigin]}

\* a ShippingService that answers callbacks one after the other
InitCalls ==
  /\ InitSync
  /\ ClientOff
  /\ CacheOff
  /\ OrderOff
  /\ shipping \in CallConfigs
  /\ quote = IdleQuote
  /\ rateCache = {}
  /\ variantCache = {}
  /\ sellerCache = [s \in QuoteSellers |-> NoOrigin]
  /\ originStore \in StoredAtStart

NextCalls ==
  \/ \E rateRequest \in CallRequests : CalcStart(rateRequest, TRUE)
  \/ \E rateRequest \in CallRequests : CalcAgain(rateRequest, TRUE)
  \/ VariantResolved
  \/ VariantFailed
  \/ OriginResolved
  \/ OriginFailed
  \/ /\ quote.pc = "rates"
     /\ \E answers \in [1..Len(quote.sellerGroups) -> CallRateLists] :
          RatesReceived(answers)
  \/ RatesFailed
  \/ \E s \in QuoteSellers, valid \in BOOLEAN : OriginSync(s, valid)
  \/ \E name \in {"rate", "variant", "seller"} : Expire(name)

(***************************************************************************)
(* MemoryCache: a Map of entries with an expiry time, in insertion order,  *)
(* capped at maxEntries.  Time is counted in seconds.  got records the     *)
(* last operation and its result (0 for null), the keys of the Map in the  *)
(* order of their last touch, and the value last set for each key.         *)
(***************************************************************************)
CacheValues == {1, 2}

\* the ttlSeconds argument of set: absent, or an integer
Ttls == {Undefined, Num(1)}

\* this.ttlSeconds of the constructor
DefaultTtl == 2

\* the position of a key in the Map, 0 if it is absent
RECURSIVE MapIndex(_, _, _)
MapIndex(map, key, i) ==
  IF i > Len(map) THEN 0
  ELSE IF map[i].key = key THEN i
  ELSE MapIndex(map, key, i + 1)

\* Map.delete
MapDelete(map, key) == SelectSeq(map, LAMBDA e : e.key # key)

\* (mutant) Map.set moves a key that is present to the end
MapSetMut(map, entry) == Append(MapDelete(map, entry.key), entry)

\* Map.set: a key that is present keeps its place, a new key goes last
MapSet(map, entry) ==
  IF MapIndex(map, entry.key, 1) # 0
  THEN [map EXCEPT ![MapIndex(map, entry.key, 1)] = entry]
  ELSE Append(map, entry)

\* (mutant) an entry expires only after its expiry time
IsExpiredMut(entry) == entry.expiresAt < now

\* _isExpired (lines 12-14)
IsExpired(entry) == entry.expiresAt <= now

\* (mutant) nothing is evicted
EvictIfNeededMut(map, maxEntries) == map

\* _evictIfNeeded (lines 16-21): the first keys of the Map go while the Map
\* has more than maxEntries entries
EvictIfNeeded(map, maxEntries) ==
  IF Len(map) > maxEntries
  THEN SubSeq(map, Len(map) - maxEntries + 1, Len(map))
  ELSE map

\* the keys of a Map
MapKeys(map) == {map[i].key : i \in 1..Len(map)}

\* the keys in the order of their last touch, oldest first, once key is
\* touched and only the keys of map are left
Touched(touched, key, map) ==
  SelectSeq(Append(SelectSeq(touched, LAMBDA k : k # key), key),
            LAMBDA k : k \in MapKeys(map))

\* set(key, value, ttlSeconds) (lines 43-48)
CacheSet(key, value, ttlSeconds) ==
  /\ LET ttl == IF ttlSeconds.t = "number" THEN ttlSeconds.v ELSE DefaultTtl
         entry == [key |-> key, value |-> value, expiresAt |-> now + ttl]
         map == EvictIfNeeded(MapSet(cache.map, entry), cache.maxEntries)
     IN /\ cache' = [cache EXCEPT !.map = map]
        /\ got' = [op |-> "set", key |-> key, value |-> value, hit |-> "none",
                   touched |-> Touched(got.touched, key, map),
                   last |-> [got.last EXCEPT ![key] = value]]
  /\ UNCHANGED <<now, callVars, orderVars, syncVars, clientVars>>

\* get(key) (lines 28-41): null without an entry, null for an expired entry,
\* which is deleted, else the value of the entry, which is touched
CacheGet(key) ==
  /\ LET i == MapIndex(cache.map, key, 1)
     IN IF i = 0
        THEN /\ got' = [got EXCEPT !.op = "get", !.key = key, !.value = 0,
                                   !.hit = "miss"]
             /\ UNCHANGED cache
        ELSE IF IsExpired(cache.map[i])
        THEN /\ cache' = [cache EXCEPT !.map = MapDelete(cache.map, key)]
             /\ got' = [got EXCEPT
                          !.op = "get", !.key = key, !.value = 0,
                          !.hit = "expired",
                          !.touched = SelectSeq(got.touched, LAMBDA k : k # key)]
        ELSE /\ cache' = [cache EXCEPT
                            !.map = Append(MapDelete(cache.map, key), cache.map[i])]
             /\ got' = [got EXCEPT
                          !.op = "get", !.key = key,
                          !.value = cache.map[i].value, !.hit = "live",
                          !.touched = Touched(got.touched, key, cache.map)]
  /\ UNCHANGED <<now, callVars, orderVars, syncVars, clientVars>>

\* a second passes
Tick ==
  /\ now < MaxTime
  /\ now' = now + 1
  /\ UNCHANGED <<cache, got, callVars, orderVars, syncVars, clientVars>>

\* a new MemoryCache
InitCache ==
  /\ InitSync
  /\ ClientOff
  /\ CallsOff
  /\ OrderOff
  /\ cache \in {[map |-> <<>>, maxEntries |-> n] : n \in 1..MaxEntriesBound}
  /\ now = 0
  /\ got = NothingGot

NextCache ==
  \/ \E key \in CacheKeys, value \in CacheValues, ttlSeconds \in Ttls :
       CacheSet(key, value, ttlSeconds)
  \/ \E key \in CacheKeys : CacheGet(key)
  \/ Tick

\* delete(key) (lines 50-52)
CacheDelete(key) ==
  /\ cache' = [cache EXCEPT !.map = MapDelete(cache.map, key)]
  /\ got' = [got EXCEPT !.op = "delete", !.key = key, !.value = 0,
                        !.hit = "none",
                        !.touched = SelectSeq(got.touched, LAMBDA k : k # key)]
  /\ UNCHANGED <<now, callVars, orderVars, syncVars, clientVars>>

\* clear() (lines 54-56)
CacheClear ==
  /\ cache' = [cache EXCEPT !.map = <<>>]
  /\ got' = [got EXCEPT !.op = "clear", !.key = "none", !.value = 0,
                        !.hit = "none", !.touched = <<>>]
  /\ UNCHANGED <<now, callVars, orderVars, syncVars, clientVars>>

\* a new MemoryCache with maxEntries >= 0
InitCacheOps ==
  /\ InitSync
  /\ ClientOff
  /\ CallsOff
  /\ OrderOff
  /\ cache \in {[map |-> <<>>, maxEntries |-> n] : n \in 0..MaxEntriesBound}
  /\ now = 0
  /\ got = NothingGot

NextCacheOps ==
  \/ \E key \in CacheKeys, value \in CacheValues, ttlSeconds \in Ttls :
       CacheSet(key, value, ttlSeconds)
  \/ \E key \in CacheKeys : CacheGet(key)
  \/ \E key \in CacheKeys : CacheDelete(key)
  \/ CacheClear
  \/ Tick

(***************************************************************************)
(* OrderSyncService: the plan of a placed order.  Text that the code       *)
(* takes apart (service codes, courier names) is a sequence of characters. *)
(***************************************************************************)
\* the letters of the texts, in lower and in upper case
LowerCase == <<"a", "b", "c", "d", "e", "f", "g", "h", "i", "j", "k", "l", "m",
               "n", "o", "p", "q", "r", "s", "t", "u", "v", "w", "x", "y", "z">>

UpperCase == <<"A", "B", "C", "D", "E", "F", "G", "H", "I", "J", "K", "L", "M",
               "N", "O", "P", "Q", "R", "S", "T", "U", "V", "W", "X", "Y", "Z">>

\* String.prototype.toUpperCase and toLowerCase, character by character
ToUpperCase(s) ==
  [i \in 1..Len(s) |->
     IF \E k \in 1..Len(LowerCase) : LowerCase[k] = s[i]
     THEN UpperCase[CHOOSE k \in 1..Len(LowerCase) : LowerCase[k] = s[i]]
     ELSE s[i]]

ToLowerCase(s) ==
  [i \in 1..Len(s) |->
     IF \E k \in 1..Len(UpperCase) : UpperCase[k] = s[i]
     THEN LowerCase[CHOOSE k \in 1..Len(UpperCase) : UpperCase[k] = s[i]]
     ELSE s[i]]

\* String.prototype.trim
RECURSIVE Trim(_)
Trim(s) ==
  IF s = <<>> THEN s
  ELSE IF Head(s) = " " THEN Trim(Tail(s))
  ELSE IF s[Len(s)] = " " THEN Trim(SubSeq(s, 1, Len(s) - 1))
  ELSE s

\* String.prototype.startsWith
StartsWith(s, prefix) ==
  /\ Len(s) >= Len(prefix)
  /\ SubSeq(s, 1, Len(prefix)) = prefix

\* String.prototype.indexOf of a character, counted from 0; -1 if absent
IndexOf(s, c) ==
  IF \E i \in 1..Len(s) : s[i] = c
  THEN (CHOOSE i \in 1..Len(s) : s[i] = c /\ \A j \in 1..(i - 1) : s[j] # c) - 1
  ELSE -1

BshPrefix == <<"B", "S", "H", "_">>

MultiCheapest ==
  <<"B", "S", "H", "_", "M", "U", "L", "T", "I", "_",
    "C", "H", "E", "A", "P", "E", "S", "T">>

\* the null of _parseCourierFromServiceCode
NotParsed ==
  [parsed |-> FALSE, isMixedFallback |-> FALSE,
   courierCompany |-> <<>>, courierType |-> <<>>]

\* (mutant) a code without a service part is parsed as well
ParseCourierFromServiceCodeMut(code) ==
  LET normalizedCode == ToUpperCase(Trim(code))
      withoutPrefix == SubSeq(normalizedCode, 5, Len(normalizedCode))
  IN IF ~StartsWith(normalizedCode, BshPrefix) THEN NotParsed
     ELSE [parsed |-> TRUE, isMixedFallback |-> normalizedCode = MultiCheapest,
           courierCompany |-> <<>>, courierType |-> <<>>]

\* _parseCourierFromServiceCode (lines 182-207)
ParseCourierFromServiceCode(code) ==
  LET normalizedCode == ToUpperCase(Trim(code))
      withoutPrefix == SubSeq(normalizedCode, 5, Len(normalizedCode))
      separatorIndex == IndexOf(withoutPrefix, "_")
  IN IF ~StartsWith(normalizedCode, BshPrefix) THEN NotParsed
     ELSE IF normalizedCode = MultiCheapest
     THEN [parsed |-> TRUE, isMixedFallback |-> TRUE,
           courierCompany |-> <<>>, courierType |-> <<>>]
     ELSE IF separatorIndex < 1 \/ separatorIndex >= Len(withoutPrefix) - 1
     THEN NotParsed
     ELSE [parsed |-> TRUE, isMixedFallback |-> FALSE,
           courierCompany |->
             ToLowerCase(SubSeq(withoutPrefix, 1, separatorIndex)),
           courierType |->
             ToLowerCase(SubSeq(withoutPrefix, separatorIndex + 2,
                                Len(withoutPrefix)))]

\* line?.code || line?.source || line?.carrier_identifier || "" (line 229)
RawCode(line) ==
  IF line.code # <<>> THEN line.code
  ELSE IF line.source # <<>> THEN line.source
  ELSE line.carrier_identifier

\* the loop over the shipping lines (lines 228-243)
RECURSIVE FromShippingLines(_)
FromShippingLines(shippingLines) ==
  IF shippingLines = <<>> THEN NoSelection
  ELSE LET rawCode == RawCode(Head(shippingLines))
           parsed == ParseCourierFromServiceCode(rawCode)
       IN IF ~parsed.parsed THEN FromShippingLines(Tail(shippingLines))
          ELSE [source |-> "shopify_shipping_line", serviceCode |-> rawCode,
                courierCompany |-> parsed.courierCompany,
                courierType |-> parsed.courierType,
                isMixedFallback |-> parsed.isMixedFallback]

\* _resolveShippingSelection (lines 209-253)
ResolveShippingSelection(order, override) ==
  LET overrideCourierCompany == Trim(override.courierCompany)
      overrideCourierType == Trim(override.courierType)
  IN IF overrideCourierCompany # <<>> /\ overrideCourierType # <<>>
     THEN [source |-> "manual_override", serviceCode |-> <<>>,
           courierCompany |-> ToLowerCase(overrideCourierCompany),
           courierType |-> ToLowerCase(overrideCourierType),
           isMixedFallback |-> FALSE]
     ELSE FromShippingLines(order.shipping_lines)

\* toPositiveInt (lines 102-109) of a number or of a missing value
ToPositiveInt(value, fallback) ==
  IF value.t = "number" /\ value.v > 0 THEN value.v ELSE fallback

\* _extractFulfillableQty (lines 161-168)
ExtractFulfillableQty(item) ==
  IF ToPositiveInt(item.fulfillable_quantity, 0) > 0
  THEN ToPositiveInt(item.fulfillable_quantity, 0)
  ELSE ToPositiveInt(item.quantity, 0)

\* _isShippableLineItem (lines 170-180)
IsShippableLineItem(item) ==
  IF item.requires_shipping = "undefined"
  THEN ExtractFulfillableQty(item) > 0
  ELSE Truthy(item.requires_shipping) /\ ExtractFulfillableQty(item) > 0

\* a line item of an order
LineItem(id, variant, quantity, fulfillable, requires) ==
  [id |-> id, variant_id |-> variant, quantity |-> quantity,
   fulfillable_quantity |-> fulfillable, requires_shipping |-> requires]

\* the line item lists of the orders: one item in every combination of
\* quantity, fulfillable quantity and flag, and pairs of items of one
\* seller, of two sellers and with an item without variant
FirstItems ==
  {LineItem("1001", "v1", Num(q), f, r) :
     q \in {0, 2}, f \in {Undefined, Num(0), Num(1)},
     r \in {"true", "false", "undefined"}}

SecondItems ==
  {LineItem("1002", v, Num(3), f, "true") :
     v \in {"v1", "v2", ""}, f \in {Num(0), Num(1)}}

LineItemLists ==
  {<<>>} \cup {<<a>> : a \in FirstItems}
         \cup {<<LineItem("1001", "v1", Num(2), Num(1), "true"), b>> :
                 b \in SecondItems}

\* service codes and courier names
JneReg == <<"B", "S", "H", "_", "J", "N", "E", "_", "R", "E", "G">>

JneYesLower == <<" ", "b", "s", "h", "_", "j", "n", "e", "_", "y", "e", "s">>

ServiceCodes ==
  {<<>>, JneReg, JneYesLower, MultiCheapest,
   <<"R", "E", "G">>,
   <<"B", "S", "H", "_", "J", "N", "E">>,
   <<"B", "S", "H", "_", "_", "R", "E", "G">>,
   <<"B", "S", "H", "_", "J", "N", "E", "_">>}

ShippingLine(code, source, carrier) ==
  [code |-> code, source |-> source, carrier_identifier |-> carrier]

ShippingLines ==
  {ShippingLine(c, <<>>, <<>>) : c \in ServiceCodes}
    \cup {ShippingLine(<<>>, JneYesLower, <<>>),
          ShippingLine(<<>>, <<>>, MultiCheapest)}

ShippingLineLists ==
  {<<>>} \cup {<<a>> : a \in ShippingLines}
         \cup {<<a, ShippingLine(c, <<>>, <<>>)>> :
                 a \in ShippingLines, c \in {JneReg, JneYesLower, MultiCheapest}}

\* the manual override of the caller: none, complete, without courier
\* type, with a blank courier type
Overrides ==
  {[courierCompany |-> <<>>, courierType |-> <<>>],
   [courierCompany |-> <<"S", "i", "C">>, courierType |-> <<"R", "E", "G">>],
   [courierCompany |-> <<"S", "i", "C">>, courierType |-> <<>>],
   [courierCompany |-> <<"S", "i", "C">>, courierType |-> <<" ">>]}

\* the orders: with a destination postal code, and one without
Orders ==
  {[zip |-> "40111", line_items |-> items, shipping_lines |-> lines] :
     items \in LineItemLists, lines \in ShippingLineLists}
    \cup {[zip |-> "", line_items |-> <<LineItem("1001", "v1", Num(2), Num(1), "true")>>,
           shipping_lines |-> <<>>]}

\* the rates that Biteship quotes for a seller group
PlanRate(courier, service, price) ==
  [courierCode |-> courier, serviceCode |-> service, price |-> price]

PlanRateLists ==
  {<<>>,
   <<PlanRate(<<"J", "N", "E">>, <<"r", "e", "g">>, 9000)>>,
   <<PlanRate(<<"j", "n", "e">>, <<"r", "e", "g">>, 9000),
     PlanRate(<<"s", "i", "c">>, <<"r", "e", "g">>, 8000),
     PlanRate(<<"j", "n", "e">>, <<"y", "e", "s">>, 8000)>>}

\* _buildPlan throws
PlanThrows(error) ==
  /\ plan' = [plan EXCEPT !.pc = "done", !.threw = TRUE, !.error = error]
  /\ UNCHANGED <<alloc, calc, callVars, cacheVars, syncVars, clientVars>>

\* _buildPlan up to its first await (lines 455-484): the destination, the
\* shippable line items and their variant ids
PlanStart(order, options) ==
  /\ plan.pc = "idle"
  /\ LET shippableLineItems == SelectSeq(order.line_items, IsShippableLineItem)
         withVariant == SelectSeq(shippableLineItems, HasVariantId)
         uniqueVariantIds ==
           Unique([i \in 1..Len(withVariant) |-> withVariant[i].variant_id], <<>>)
         p == [plan EXCEPT !.order = order, !.options = options]
     IN plan' =
          IF order.zip = ""
          THEN [p EXCEPT !.pc = "done", !.threw = TRUE, !.error = "destination"]
          ELSE IF shippableLineItems = <<>>
          THEN [p EXCEPT !.pc = "done", !.threw = TRUE, !.error = "no_shippable"]
          ELSE IF uniqueVariantIds = <<>>
          THEN [p EXCEPT !.pc = "done", !.threw = TRUE, !.error = "no_variant_ids"]
          ELSE [p EXCEPT !.pc = "variants", !.shippable = shippableLineItems,
                         !.pending = uniqueVariantIds]
  /\ UNCHANGED <<alloc, calc, callVars, cacheVars, syncVars, clientVars>>

\* the sellers of the shippable line items in the order in which the loop
\* of lines 491-525 meets them
PlanSellers(shippable) ==
  Unique([i \in 1..Len(SelectSeq(shippable, HasVariantId)) |->
            SellerOf(SelectSeq(shippable, HasVariantId)[i].variant_id)], <<>>)

\* _getVariantMapping resolves the next variant id (lines 482-486)
PlanVariantResolved ==
  /\ plan.pc = "variants"
  /\ plan' =
       [plan EXCEPT
          !.variantMappings =
            Append(@, [variantId |-> Head(plan.pending),
                       sellerId |-> SellerOf(Head(plan.pending))]),
          !.pending = Tail(@),
          !.pc = IF Tail(plan.pending) = <<>> THEN "origins" ELSE "variants",
          !.sellers = IF Tail(plan.pending) = <<>>
                      THEN PlanSellers(plan.shippable) ELSE <<>>]
  /\ UNCHANGED <<alloc, calc, callVars, cacheVars, syncVars, clientVars>>

\* _getVariantMapping rejects: _buildPlan has no catch
PlanVariantFailed ==
  /\ plan.pc = "variants"
  /\ PlanThrows("variant")

\* one pass of the loop of lines 491-525 for a line item: skipped without
\* mapping, else put into the group of its seller with the quantity of
\* _extractFulfillableQty (_buildBiteshipItem line 350, line 521)
RECURSIVE GroupLineItems(_, _, _)
GroupLineItems(lineItems, groups, skipped) ==
  IF lineItems = <<>> THEN [groups |-> groups, skipped |-> skipped]
  ELSE LET lineItem == Head(lineItems)
           sellerId == SellerOf(lineItem.variant_id)
           at == IF \E i \in 1..Len(groups) : groups[i].sellerId = sellerId
                 THEN CHOOSE i \in 1..Len(groups) : groups[i].sellerId = sellerId
                 ELSE Len(groups) + 1
           opened == IF at > Len(groups)
                     THEN Append(groups, [sellerId |-> sellerId, items |-> <<>>,
                                          lineItems |-> <<>>])
                     ELSE groups
       IN IF lineItem.variant_id = ""
          THEN GroupLineItems(Tail(lineItems), groups,
                              Append(skipped, [lineItemId |-> lineItem.id,
                                               reason |-> "variant_mapping_not_found"]))
          ELSE GroupLineItems(
                 Tail(lineItems),
                 [opened EXCEPT
                    ![at].items =
                      Append(@, [name |-> lineItem.id,
                                 quantity |-> ExtractFulfillableQty(lineItem)]),
                    ![at].lineItems =
                      Append(@, [lineItemId |-> lineItem.id,
                                 variantId |-> lineItem.variant_id,
                                 quantity |-> ExtractFulfillableQty(lineItem)])],
                 skipped)

\* _getSellerOrigin resolves the origin of the next new seller (line 507);
\* after the last one the groups are complete and the shipping selection is
\* resolved (line 527)
PlanOriginResolved ==
  /\ plan.pc = "origins"
  /\ plan' =
       IF Tail(plan.sellers) # <<>>
       THEN [plan EXCEPT !.sellers = Tail(@)]
       ELSE [plan EXCEPT
               !.sellers = <<>>,
               !.pc = "groups",
               !.groupsBySeller = GroupLineItems(plan.shippable, <<>>, <<>>).groups,
               !.skippedItems = GroupLineItems(plan.shippable, <<>>, <<>>).skipped,
               !.selectedShipping =
                 ResolveShippingSelection(plan.order, plan.options)]
  /\ UNCHANGED <<alloc, calc, callVars, cacheVars, syncVars, clientVars>>

\* _getSellerOrigin rejects: _buildPlan has no catch
PlanOriginFailed ==
  /\ plan.pc = "origins"
  /\ PlanThrows("origin")

\* (mutant) a re-quote is made only without any selection
HasCourierMut(selectedShipping) == selectedShipping.source # "none"

\* selectedShipping.courierCompany && selectedShipping.courierType (line 546)
HasCourier(selectedShipping) ==
  /\ selectedShipping.courierCompany # <<>>
  /\ selectedShipping.courierType # <<>>

\* the seller group that the loop of lines 530-569 handles next
NextGroup == plan.groupsBySeller[Len(plan.sellerGroups) + 1]

\* a seller group is complete (lines 560-568)
PlanGroupDone(courierSelection, calls) ==
  /\ plan' =
       [plan EXCEPT
          !.sellerGroups =
            Append(@, [sellerId |-> NextGroup.sellerId,
                       items |-> NextGroup.items,
                       lineItems |-> NextGroup.lineItems,
                       shippingServiceCode |-> plan.selectedShipping.serviceCode,
                       courierSelection |-> courierSelection]),
          !.rateCalls = @ + calls,
          !.pc = IF Len(plan.sellerGroups) + 1 = Len(plan.groupsBySeller)
                 THEN "done" ELSE "groups"]
  /\ UNCHANGED <<alloc, calc, callVars, cacheVars, syncVars, clientVars>>

\* the selection names a courier (lines 546-552): no rate request
PlanGroupSelected ==
  /\ plan.pc = "groups"
  /\ HasCourier(plan.selectedShipping)
  /\ PlanGroupDone([courierCompany |-> plan.selectedShipping.courierCompany,
                    courierType |-> plan.selectedShipping.courierType,
                    source |-> plan.selectedShipping.source,
                    previewPrice |-> 0], 0)

\* sorted[0] of _resolveCheapestCourier (line 438-439): the first of the
\* rates with the lowest price
CheapestRate(rates) ==
  rates[CHOOSE i \in 1..Len(rates) :
          /\ \A j \in 1..Len(rates) : rates[i].price <= rates[j].price
          /\ \A j \in 1..(i - 1) : rates[j].price > rates[i].price]

\* _resolveCheapestCourier (lines 426-453) with the rates of Biteship
PlanGroupRequoted(rates) ==
  /\ plan.pc = "groups"
  /\ ~HasCourier(plan.selectedShipping)
  /\ rates # <<>>
  /\ PlanGroupDone([courierCompany |-> ToLowerCase(CheapestRate(rates).courierCode),
                    courierType |-> ToLowerCase(CheapestRate(rates).serviceCode),
                    source |-> "cheapest_requote",
                    previewPrice |-> CheapestRate(rates).price], 1)

\* Biteship has no rate for the group, or the rate request fails:
\* _resolveCheapestCourier throws
PlanGroupNoRate ==
  /\ plan.pc = "groups"
  /\ ~HasCourier(plan.selectedShipping)
  /\ plan' = [plan EXCEPT !.pc = "done", !.threw = TRUE, !.error = "no_rate",
                          !.rateCalls = @ + 1]
  /\ UNCHANGED <<alloc, calc, callVars, cacheVars, syncVars, clientVars>>

\* the orders for which plans are built, one after the other
InitPlan ==
  /\ InitSync
  /\ ClientOff
  /\ CallsOff
  /\ CacheOff
  /\ OrderOff

\* the plan is returned or the error is thrown; the next call starts afresh
PlanReturns ==
  /\ plan.pc = "done"
  /\ plan' = IdlePlan
  /\ UNCHANGED <<alloc, calc, callVars, cacheVars, syncVars, clientVars>>

NextPlan ==
  \/ \E order \in Orders, options \in Overrides : PlanStart(order, options)
  \/ PlanVariantResolved
  \/ PlanVariantFailed
  \/ PlanOriginResolved
  \/ PlanOriginFailed
  \/ PlanGroupSelected
  \/ \E rates \in PlanRateLists : PlanGroupRequoted(rates)
  \/ PlanGroupNoRate
  \/ PlanReturns

(***************************************************************************)
(* OrderSyncService: the fulfillment allocator.  byLineItem holds the      *)
(* candidates in the order in which the fulfillment orders list them.      *)
(***************************************************************************)
\* a line item of a fulfillment order
FulfillmentLine(id, lineItemId, fulfillable, quantity) ==
  [id |-> id, line_item_id |-> lineItemId,
   fulfillable_quantity |-> fulfillable, quantity |-> quantity]

FulfillmentOrder(id, lineItems) == [id |-> id, line_items |-> lineItems]

\* the fulfillment orders of an order: line item 1001 is listed in both,
\* one entry names no line item, one has no fulfillable quantity of its own
FulfillmentOrderLists ==
  {<<FulfillmentOrder("111", <<FulfillmentLine("11", "1001", Num(a), Num(2))>>),
     FulfillmentOrder("222", <<FulfillmentLine("22", "1002", Num(b), Num(1)),
                               FulfillmentLine("23", "1001", Num(c), Num(0)),
                               FulfillmentLine("24", "", Num(1), Num(1)),
                               FulfillmentLine("25", "1004", Undefined, Num(1))>>)>> :
     a \in 0..MaxQty, b \in 0..MaxQty, c \in 0..MaxQty}

\* the line items that a seller group asks to fulfill
RequestedItems ==
  {[lineItemId |-> id, quantity |-> q] :
     id \in {"1001", "1002", "1003", "1004"}, q \in 1..MaxQty}
    \cup {[lineItemId |-> "", quantity |-> 1], [lineItemId |-> "1001", quantity |-> 0]}

RequestedLists ==
  {<<a>> : a \in RequestedItems}
    \cup {<<a, [lineItemId |-> id, quantity |-> 1]>> :
            a \in RequestedItems, id \in {"1001", "1002"}}

\* the candidates of the line items of one fulfillment order (lines 638-656)
RECURSIVE Candidates(_, _)
Candidates(fulfillmentOrderId, lineItems) ==
  IF lineItems = <<>> THEN <<>>
  ELSE IF Head(lineItems).line_item_id = ""
  THEN Candidates(fulfillmentOrderId, Tail(lineItems))
  ELSE <<[lineItemId |-> Head(lineItems).line_item_id,
          fulfillmentOrderId |-> fulfillmentOrderId,
          fulfillmentOrderLineItemId |-> Head(lineItems).id,
          remainingQty |->
            ToPositiveInt(Head(lineItems).fulfillable_quantity,
                          ToPositiveInt(Head(lineItems).quantity, 0))]>>
       \o Candidates(fulfillmentOrderId, Tail(lineItems))

\* byLineItem (lines 630-657)
RECURSIVE ByLineItem(_)
ByLineItem(fulfillmentOrders) ==
  IF fulfillmentOrders = <<>> THEN <<>>
  ELSE Candidates(Head(fulfillmentOrders).id, Head(fulfillmentOrders).line_items)
       \o ByLineItem(Tail(fulfillmentOrders))

\* _buildFulfillmentAllocator (lines 629-714)
BuildFulfillmentAllocator(fulfillmentOrders) ==
  /\ ~alloc.built
  /\ alloc' = [NoAllocator EXCEPT !.built = TRUE,
                                  !.fetched = fulfillmentOrders,
                                  !.byLineItem = ByLineItem(fulfillmentOrders)]
  /\ UNCHANGED <<plan, calc, callVars, cacheVars, syncVars, clientVars>>

\* grouped.get(fulfillmentOrderId).push(...) (lines 686-693)
Push(grouped, fulfillmentOrderId, entry) ==
  IF \E g \in 1..Len(grouped) : grouped[g].fulfillment_order_id = fulfillmentOrderId
  THEN [g \in 1..Len(grouped) |->
          IF grouped[g].fulfillment_order_id = fulfillmentOrderId
          THEN [grouped[g] EXCEPT !.fulfillment_order_line_items = Append(@, entry)]
          ELSE grouped[g]]
  ELSE Append(grouped, [fulfillment_order_id |-> fulfillmentOrderId,
                        fulfillment_order_line_items |-> <<entry>>])

\* (mutant) a candidate gives all that it has left
TakeQtyMut(remaining, candidate) == candidate.remainingQty

\* takeQty (line 678)
TakeQty(remaining, candidate) ==
  IF remaining <= candidate.remainingQty THEN remaining
  ELSE candidate.remainingQty

\* the loop over the candidates of a line item, from candidate i on
\* (lines 673-694)
RECURSIVE Consume(_, _, _, _, _)
Consume(candidates, lineItemId, remaining, i, grouped) ==
  IF i > Len(candidates) \/ remaining <= 0
  THEN [candidates |-> candidates, remaining |-> remaining, grouped |-> grouped]
  ELSE IF candidates[i].lineItemId # lineItemId
          \/ TakeQty(remaining, candidates[i]) <= 0
  THEN Consume(candidates, lineItemId, remaining, i + 1, grouped)
  ELSE Consume([candidates EXCEPT
                  ![i].remainingQty = @ - TakeQty(remaining, candidates[i])],
               lineItemId,
               remaining - TakeQty(remaining, candidates[i]),
               i + 1,
               Push(grouped, candidates[i].fulfillmentOrderId,
                    [id |-> candidates[i].fulfillmentOrderLineItemId,
                     quantity |-> TakeQty(remaining, candidates[i])]))

\* the loop over the requested line items (lines 664-699)
RECURSIVE AllocateAll(_, _, _, _)
AllocateAll(requestedLineItems, candidates, grouped, unallocated) ==
  IF requestedLineItems = <<>>
  THEN [candidates |-> candidates, grouped |-> grouped,
        unallocated |-> unallocated]
  ELSE LET requested == Head(requestedLineItems)
           consumed == Consume(candidates, requested.lineItemId,
                               requested.quantity, 1, grouped)
       IN IF requested.lineItemId = "" \/ requested.quantity <= 0
          THEN AllocateAll(Tail(requestedLineItems), candidates, grouped,
                           unallocated)
          ELSE AllocateAll(
                 Tail(requestedLineItems), consumed.candidates, consumed.grouped,
                 IF consumed.remaining > 0
                 THEN Append(unallocated, [lineItemId |-> requested.lineItemId,
                                           quantity |-> consumed.remaining])
                 ELSE unallocated)

\* allocate (lines 660-712)
Allocate(requestedLineItems) ==
  /\ alloc.built
  /\ LET result == AllocateAll(requestedLineItems, alloc.byLineItem, <<>>, <<>>)
     IN alloc' = [built |-> TRUE,
                  fetched |-> alloc.fetched,
                  byLineItem |-> result.candidates,
                  before |-> alloc.byLineItem,
                  requested |-> requestedLineItems,
                  lineItemsByFulfillmentOrder |-> result.grouped,
                  unallocated |-> result.unallocated]
  /\ UNCHANGED <<plan, calc, callVars, cacheVars, syncVars, clientVars>>

\* the fulfillment orders of an order and the allocations of its seller groups
InitAlloc ==
  /\ InitSync
  /\ ClientOff
  /\ CallsOff
  /\ CacheOff
  /\ OrderOff

NextAlloc ==
  \/ \E fulfillmentOrders \in FulfillmentOrderLists :
       BuildFulfillmentAllocator(fulfillmentOrders)
  \/ \E requestedLineItems \in RequestedLists : Allocate(requestedLineItems)

(***************************************************************************)
(* The functions without effects, called on their own: calc holds the      *)
(* arguments of a call and, once the call returned, its result.            *)
(***************************************************************************)

\* an item of a request whose cache key is built
KeyItem(variant, quantity) ==
  [variant_id |-> variant, requires_shipping |-> "true",
   price |-> 5000000, quantity |-> quantity, grams |-> 1000]

KeyItems == {KeyItem(v, q) : v \in {"", "v1", "v2"}, q \in {1, 2}}

KeyCarts == UNION {[1..n -> KeyItems] : n \in 1..MaxItems}

\* the orders in which the items of a cart can come
Reorderings(xs) ==
  {[i \in 1..Len(xs) |-> xs[f[i]]] :
     f \in {g \in [1..Len(xs) -> 1..Len(xs)] :
              \A i, j \in 1..Len(xs) : i # j => g[i] # g[j]}}

KeyDestinations ==
  {[postal_code |-> "40111", latitude |-> Undefined, longitude |-> Undefined],
   [postal_code |-> "", latitude |-> Num(-6), longitude |-> Num(107)]}

KeyRequest(d, c) == [object |-> TRUE, destination |-> d, items |-> c]

\* two requests that differ in the order of their items at most
InitKey ==
  /\ InitSync
  /\ ClientOff
  /\ CallsOff
  /\ CacheOff
  /\ plan = IdlePlan
  /\ alloc = NoAllocator
  /\ \E d \in KeyDestinations, c \in KeyCarts :
       \E c2 \in Reorderings(c) :
         calc = [fn |-> "_buildRateCacheKey",
                 requests |-> <<KeyRequest(d, c), KeyRequest(d, c2)>>,
                 keys |-> <<>>]

\* _buildRateCacheKey returns the key of the next of the two requests
KeyBuilt ==
  /\ calc.fn = "_buildRateCacheKey"
  /\ Len(calc.keys) < 2
  /\ calc' = [calc EXCEPT
       !.keys = Append(@, BuildRateCacheKey(calc.requests[Len(@) + 1]))]
  /\ UNCHANGED <<plan, alloc, callVars, cacheVars, syncVars, clientVars>>

NextKey == KeyBuilt


\* the digits, in the order of their values
Digits == <<"0", "1", "2", "3", "4", "5", "6", "7", "8", "9">>

IsDigit(c) == \E k \in 1..Len(Digits) : Digits[k] = c

DigitValue(c) == (CHOOSE k \in 1..Len(Digits) : Digits[k] = c) - 1

\* text.match(/\d+/g) with Number applied to each match: the runs of digits
\* of the text from left to right, as numbers (cur is the value of the run
\* being read when inRun)
RECURSIVE MatchNumbers(_, _, _)
MatchNumbers(s, cur, inRun) ==
  IF s = <<>> THEN (IF inRun THEN <<cur>> ELSE <<>>)
  ELSE IF IsDigit(Head(s))
       THEN MatchNumbers(Tail(s),
                         (IF inRun THEN cur * 10 ELSE 0) + DigitValue(Head(s)),
                         TRUE)
       ELSE (IF inRun THEN <<cur>> ELSE <<>>)
              \o MatchNumbers(Tail(s), 0, FALSE)

\* String.prototype.includes
Includes(s, sub) ==
  \E i \in 1..(Len(s) - Len(sub) + 1) : SubSeq(s, i, i + Len(sub) - 1) = sub

RECURSIVE Gcd(_, _)
Gcd(a, b) == IF b = 0 THEN a ELSE Gcd(b, a % b)

\* the number n * (1 / per) of days, as the fraction n / per in lowest terms
\* (the rounding of the floating-point product is left out)
Days(n, per) ==
  IF n <= 0 THEN [n |-> n, per |-> 1]
  ELSE [n |-> n \div Gcd(n, per), per |-> per \div Gcd(n, per)]

\* (mutant) every unit counts as days
DurationUnitFactorMut(item) == 1

\* _durationUnitFactor: the number of units in a day, 1 / factor
DurationUnitFactor(item) ==
  LET fromField == ToLowerCase(item.shipment_duration_unit)
      fromDuration == ToLowerCase(item.duration)
      unit == IF fromField # <<>> THEN fromField ELSE fromDuration
  IN IF Includes(unit, <<"h", "o", "u", "r">>) THEN 24
     ELSE IF Includes(unit, <<"m", "i", "n", "u", "t", "e">>) THEN 24 * 60
     ELSE 1

\* _extractDurationDays
ExtractDurationDays(item) ==
  LET directMin == item.min_day
      directMax == item.max_day
      unitFactor == DurationUnitFactor(item)
      durationRange ==
        Trim(IF item.shipment_duration_range # <<>>
             THEN item.shipment_duration_range ELSE item.duration)
      numbers == MatchNumbers(durationRange, 0, FALSE)
  IN IF directMin > 0 \/ directMax > 0
     THEN [minDay |-> Days(IF directMin > 0 THEN directMin ELSE directMax, 1),
           maxDay |-> Days(IF directMax > 0 THEN directMax ELSE directMin, 1)]
     ELSE IF durationRange = <<>> \/ numbers = <<>>
     THEN [minDay |-> Days(0, 1), maxDay |-> Days(0, 1)]
     ELSE IF Len(numbers) = 1
     THEN [minDay |-> Days(numbers[1], unitFactor),
           maxDay |-> Days(numbers[1], unitFactor)]
     ELSE [minDay |-> Days(numbers[1], unitFactor),
           maxDay |-> Days(IF numbers[2] # 0 THEN numbers[2] ELSE numbers[1],
                           unitFactor)]

\* the values of min_day and max_day: none (0), a negative one, positive ones
DirectDays == -1..MaxDay

OneToTwo == <<"1", " ", "-", " ", "2">>

DurationRanges ==
  {<<>>, <<" ">>, OneToTwo, <<"3">>, <<"3", " ", "-", " ", "0">>,
   <<"0", " ", "-", " ", "2">>, <<"1", "2", "-", "2", "4", "-", "3">>,
   <<"s", "a", "m", "e", " ", "d", "a", "y">>}

Hours == <<"h", "o", "u", "r", "s">>

DurationUnits ==
  {<<>>, <<"d", "a", "y", "s">>, Hours, <<"H", "o", "u", "r">>,
   <<"M", "I", "N", "U", "T", "E", "S">>, <<"w", "e", "e", "k", "s">>}

Durations == {<<>>, <<"2", " ">> \o Hours}

RateItems ==
  [min_day : DirectDays, max_day : DirectDays,
   shipment_duration_range : DurationRanges,
   shipment_duration_unit : DurationUnits, duration : Durations]

InitDuration ==
  /\ InitSync
  /\ ClientOff
  /\ CallsOff
  /\ CacheOff
  /\ plan = IdlePlan
  /\ alloc = NoAllocator
  /\ \E item \in RateItems :
       calc = [fn |-> "_extractDurationDays", item |-> item,
               returned |-> FALSE,
               result |-> [minDay |-> Days(0, 1), maxDay |-> Days(0, 1)]]

\* _extractDurationDays returns
DurationExtracted ==
  /\ calc.fn = "_extractDurationDays"
  /\ ~calc.returned
  /\ calc' = [calc EXCEPT !.returned = TRUE,
                          !.result = ExtractDurationDays(calc.item)]
  /\ UNCHANGED <<plan, alloc, callVars, cacheVars, syncVars, clientVars>>

NextDuration == DurationExtracted


\* _sanitizeServiceCode: upper case, every character that is not of
\* [A-Z0-9_] replaced by "_", cut to 60 characters
SanitizeServiceCode(rawCode) ==
  LET upper == ToUpperCase(IF rawCode = <<>> THEN <<"R", "A", "T", "E">>
                           ELSE rawCode)
      replaced == [i \in 1..Len(upper) |->
                     IF (\E k \in 1..Len(UpperCase) : UpperCase[k] = upper[i])
                          \/ IsDigit(upper[i]) \/ upper[i] = "_"
                     THEN upper[i] ELSE "_"]
  IN SubSeq(replaced, 1, IF Len(replaced) < MaxCodeLength THEN Len(replaced)
                         ELSE MaxCodeLength)

\* the service_code of _toShopifyRate for a common rate (line 473)
ServiceCodeOf(rate) ==
  SanitizeServiceCode(BshPrefix \o rate.courierCode \o <<"_">>
                        \o rate.serviceCode)

\* courier codes as _normalizeRate gives them (lower case, not empty)
CourierCodes ==
  {<<"j", "n", "e">>, <<"t", "i", "k", "i">>, <<"g", "o", "j", "e", "k">>,
   <<"s", "i", "c", "e", "p", "a", "t">>, <<"j", "&", "t">>,
   <<"p", "o", "s", "_", "i", "d">>, <<"m", "u", "l", "t", "i">>}

\* a service code of MaxCodeLength characters
LongCode == [i \in 1..MaxCodeLength |-> "x"]

ServiceTypes ==
  {<<"r", "e", "g">>, <<"y", "e", "s">>, <<"b", "e", "s", "t">>,
   <<"s", "a", "m", "e", "_", "d", "a", "y">>,
   <<"j", "t", "r", "<", "1", "3", "0">>,
   <<"c", "h", "e", "a", "p", "e", "s", "t">>,
   <<"n", "e", "x", "t", " ", "d", "a", "y">>, LongCode}

InitCode ==
  /\ InitSync
  /\ ClientOff
  /\ CallsOff
  /\ CacheOff
  /\ plan = IdlePlan
  /\ alloc = NoAllocator
  /\ \E c \in CourierCodes, t \in ServiceTypes :
       calc = [fn |-> "service_code", pc |-> "rate",
               rate |-> [courierCode |-> c, serviceCode |-> t],
               service_code |-> <<>>, parsed |-> NotParsed]

\* calculate emits the rate: _toShopifyRate with isFallback false
CodeEmitted ==
  /\ calc.fn = "service_code"
  /\ calc.pc = "rate"
  /\ calc' = [calc EXCEPT !.pc = "emitted",
                          !.service_code = ServiceCodeOf(calc.rate)]
  /\ UNCHANGED <<plan, alloc, callVars, cacheVars, syncVars, clientVars>>

\* the order comes back with the code on its shipping line and
\* _parseCourierFromServiceCode reads it
CodeParsed ==
  /\ calc.fn = "service_code"
  /\ calc.pc = "emitted"
  /\ calc' = [calc EXCEPT
       !.pc = "parsed",
       !.parsed = ParseCourierFromServiceCode(calc.service_code)]
  /\ UNCHANGED <<plan, alloc, callVars, cacheVars, syncVars, clientVars>>

NextCode == CodeEmitted \/ CodeParsed


(***************************************************************************)
(* Properties of the quote computation.                                    *)
(***************************************************************************)

\* the call has computed rates from the groups' answers
Quoted == quote.pc = "done" /\ quote.reason = "calculated"

\* a value that is a finite number
IsFiniteNumber(value) == value.t = "number"

\* the destination of the request has neither a postal code nor a pair of
\* finite coordinates
NoDestinationLocation(rateRequest) ==
  /\ NormalizePostalCode(rateRequest.destination.postal_code) = ""
  /\ ~(/\ IsFiniteNumber(rateRequest.destination.latitude)
       /\ IsFiniteNumber(rateRequest.destination.longitude))

\* C15: for every cart whose destination has no postal code and lacks a
\* finite latitude/longitude pair, calculate returns zero rates and makes no
\* call to the Webkul or the Biteship client.
C15_NoLocationNoCalls ==
  (quote.pc # "idle" /\ quote.request.object
     /\ NoDestinationLocation(quote.request))
    => /\ quote.rates = <<>>
       /\ quote.webkulCalls = 0
       /\ quote.biteshipCalls = 0


\* the (courierCode, serviceCode) keys of a rate list
KeysOf(rates) == {RateKey(rates[i]) : i \in 1..Len(rates)}

\* the prices of the quotes of one seller group that carry the key
PricesFor(group, key) ==
  {group.rates[i].price :
     i \in {j \in 1..Len(group.rates) : RateKey(group.rates[j]) = key}}

\* the least member of a non-empty set of prices
Lowest(prices) == CHOOSE p \in prices : \A other \in prices : p <= other

\* the sum over the seller groups of each group's lowest price for the key
RECURSIVE SumLowestFor(_, _)
SumLowestFor(groups, key) ==
  IF groups = <<>> THEN 0
  ELSE Lowest(PricesFor(Head(groups), key)) + SumLowestFor(Tail(groups), key)

\* the free-shipping rule: a positive threshold reached by the cart subtotal
FreeShipping(subtotalIdr) ==
  shipping.freeThresholdIdr > 0 /\ subtotalIdr >= shipping.freeThresholdIdr

\* the subunits of the rate the call returns for a sum of group prices
ExpectedSubunits(sum, subtotalIdr) ==
  IF FreeShipping(subtotalIdr) THEN 0 ELSE 100 * (sum + HandlingFee)

\* C16: each non-fallback rate that calculate returns has total_price
\* 100 * (the sum over all seller groups of the group's lowest price for the
\* rate's key + the handling fee), and 0 when the free threshold is positive
\* and the cart subtotal reaches it.
C16_CommonRatePrice ==
  Quoted =>
    \A i \in 1..Len(quote.rates) :
      ~quote.aggregatedRates[i].fallback =>
        /\ quote.rates[i].total_price =
             ExpectedSubunits(
               SumLowestFor(quote.biteshipResults,
                            RateKey(quote.aggregatedRates[i])),
               quote.subtotalIdr)
        /\ quote.rates[i].service_code =
             "BSH_" \o Upper(quote.aggregatedRates[i].courierCode) \o "_"
                    \o Upper(quote.aggregatedRates[i].serviceCode)

\* two groups quote 22000 and 18000 for jne:reg, no fee, no threshold: the
\* returned jne:reg rate has total_price 4000000
C16_Witness ==
  /\ Quoted
  /\ shipping.handlingFeeIdr = 0 /\ shipping.freeThresholdIdr = 0
  /\ Len(quote.biteshipResults) = 2
  /\ PricesFor(quote.biteshipResults[1], <<"jne", "reg">>) = {22000}
  /\ PricesFor(quote.biteshipResults[2], <<"jne", "reg">>) = {18000}
  /\ \E i \in 1..Len(quote.rates) :
       /\ quote.rates[i].service_code = "BSH_JNE_REG"
       /\ quote.rates[i].total_price = 4000000


\* every (courierCode, serviceCode) key that a getRates answer can carry
AllKeys == {<<c.courierCode, c.serviceCode>> : c \in Couriers \cup {Express}}

\* every seller group returned at least one quote with the key
InEveryGroup(biteshipResults, key) ==
  \A g \in 1..Len(biteshipResults) : PricesFor(biteshipResults[g], key) # {}

\* the positions of the non-fallback rates for the key in a list of rates
NonFallbackFor(rates, key) ==
  {i \in 1..Len(rates) : ~rates[i].fallback /\ RateKey(rates[i]) = key}

\* C17: before sorting and capping, calculate produces a non-fallback rate
\* for a (courierCode, serviceCode) key if and only if every seller group
\* returned at least one quote with that key (and then exactly one).
C17_CommonKeysOnly ==
  Quoted =>
    \A key \in AllKeys :
      /\ NonFallbackFor(quote.aggregated, key) # {}
           <=> InEveryGroup(quote.biteshipResults, key)
      /\ Cardinality(NonFallbackFor(quote.aggregated, key)) <= 1

\* two groups, one key quoted by both and one key quoted by the first only:
\* the aggregation has a rate for the first key and none for the second
C17_Witness ==
  /\ Quoted
  /\ Len(quote.biteshipResults) = 2
  /\ \E common, partial \in AllKeys :
       /\ InEveryGroup(quote.biteshipResults, common)
       /\ PricesFor(quote.biteshipResults[1], partial) # {}
       /\ PricesFor(quote.biteshipResults[2], partial) = {}
       /\ NonFallbackFor(quote.aggregated, common) # {}
       /\ NonFallbackFor(quote.aggregated, partial) = {}


\* no key is quoted by every seller group
NoCommonKey(biteshipResults) ==
  \A key \in AllKeys : ~InEveryGroup(biteshipResults, key)

\* every seller group returned at least one quote
EveryGroupQuoted(biteshipResults) ==
  \A g \in 1..Len(biteshipResults) : Len(biteshipResults[g].rates) > 0

\* the prices of all quotes of one seller group
AllPrices(group) == {group.rates[i].price : i \in 1..Len(group.rates)}

\* the sum over the seller groups of each group's cheapest quote
RECURSIVE SumCheapest(_)
SumCheapest(groups) ==
  IF groups = <<>> THEN 0
  ELSE Lowest(AllPrices(Head(groups))) + SumCheapest(Tail(groups))

\* the one rate of the fallback, as calculate returns it
MixedCheapest(biteshipResults, subtotalIdr) ==
  [service_code |-> "BSH_MULTI_CHEAPEST",
   total_price |-> ExpectedSubunits(SumCheapest(biteshipResults), subtotalIdr)]

Contribution(group, rate) ==
  IF rate.fallback THEN Lowest(AllPrices(group))
  ELSE Lowest(PricesFor(group, RateKey(rate)))

RECURSIVE SumContributions(_, _)
SumContributions(groups, rate) ==
  IF groups = <<>> THEN 0
  ELSE Contribution(Head(groups), rate) + SumContributions(Tail(groups), rate)

\* a seller group returned several quotes with one key at different prices
HasDuplicateKey(group) ==
  \E i, j \in 1..Len(group.rates) :
    /\ i # j
    /\ RateKey(group.rates[i]) = RateKey(group.rates[j])
    /\ group.rates[i].price # group.rates[j].price

\* C19: within one seller group, when several quotes share a (courierCode,
\* serviceCode) key, only the lowest-priced of them contributes to the
\* aggregation, both to the sum of a common key and to the group's cheapest
\* quote of the fallback: every aggregated rate that is not free is the sum
\* of the groups' lowest prices plus the fee, and each group keeps one quote
\* per key, the lowest-priced.
C19_LowestOfDuplicates ==
  Quoted =>
    /\ \A i \in 1..Len(quote.aggregated) :
         quote.aggregated[i].totalPriceIdr =
           IF FreeShipping(quote.subtotalIdr) THEN 0
           ELSE SumContributions(quote.biteshipResults, quote.aggregated[i])
                  + HandlingFee
    /\ \A g \in 1..Len(quote.biteshipResults) :
         LET byKey == Dedupe(quote.biteshipResults[g].rates, <<>>)
         IN /\ \A i, j \in 1..Len(byKey) :
                 RateKey(byKey[i]) = RateKey(byKey[j]) => i = j
            /\ KeysOf(byKey) = KeysOf(quote.biteshipResults[g].rates)
            /\ \A i \in 1..Len(byKey) :
                 byKey[i].price =
                   Lowest(PricesFor(quote.biteshipResults[g], RateKey(byKey[i])))

\* a group quotes one key at 18000 and then at 22000, another group the same
\* key at 22000 and then at 18000: the common rate sums 18000 + 18000
C19_Witness ==
  /\ Quoted
  /\ ~FreeShipping(quote.subtotalIdr)
  /\ Len(quote.biteshipResults) = 2
  /\ HasDuplicateKey(quote.biteshipResults[1])
  /\ HasDuplicateKey(quote.biteshipResults[2])
  /\ quote.biteshipResults[1].rates[1].price = 18000
  /\ quote.biteshipResults[2].rates[1].price = 22000
  /\ Len(quote.aggregated) = 1
  /\ ~quote.aggregated[1].fallback
  /\ quote.aggregated[1].totalPriceIdr = 36000 + HandlingFee


\* the returned list is in non-decreasing order of total_price
SortedByTotal(rates) ==
  \A i, j \in 1..Len(rates) : i < j => rates[i].total_price <= rates[j].total_price

\* the aggregated rates that the cap cut
Dropped ==
  {quote.aggregated[x] : x \in 1..Len(quote.aggregated)}
    \ {quote.aggregatedRates[i] : i \in 1..Len(quote.aggregatedRates)}

\* no rate that was cut is cheaper than a rate that was kept
KeptAreCheapest ==
  \A x \in Dropped : \A i \in 1..Len(quote.aggregatedRates) :
    quote.aggregatedRates[i].totalPriceIdr <= x.totalPriceIdr

\* the lesser of two numbers
Min(a, b) == IF a <= b THEN a ELSE b

\* C20 as stated: the rate list returned by calculate is in non-decreasing
\* order of total price and contains at most shipping.maxRates entries; when
\* the cap truncates, the retained entries are the cheapest ones.
C20_Original ==
  Quoted =>
    /\ SortedByTotal(quote.rates)
    /\ Len(quote.rates) <= shipping.maxRates
    /\ KeptAreCheapest

\* C20 (amended): the rate list returned by calculate is in non-decreasing
\* order of total price; for shipping.maxRates >= 0 it contains the
\* min(maxRates, number of aggregated rates) cheapest entries, so at most
\* maxRates; for a negative maxRates it contains all aggregated rates but the
\* -maxRates most expensive, which can be more than maxRates.
C20_SortedAndCapped ==
  Quoted =>
    /\ SortedByTotal(quote.rates)
    /\ Len(quote.rates) = Len(quote.aggregatedRates)
    /\ Len(quote.rates) =
         IF shipping.maxRates >= 0
         THEN Min(shipping.maxRates, Len(quote.aggregated))
         ELSE IF Len(quote.aggregated) + shipping.maxRates > 0
              THEN Len(quote.aggregated) + shipping.maxRates
              ELSE 0
    /\ shipping.maxRates >= 0 => Len(quote.rates) <= shipping.maxRates
    /\ KeptAreCheapest

\* the aggregation has a dearer rate before a cheaper one and the cap of 1
\* keeps the cheaper one only
C20_Witness ==
  /\ Quoted
  /\ shipping.maxRates = 1
  /\ Len(quote.aggregated) = 2
  /\ quote.aggregated[1].totalPriceIdr > quote.aggregated[2].totalPriceIdr
  /\ quote.aggregatedRates = <<quote.aggregated[2]>>
  /\ Len(quote.rates) = 1


(***************************************************************************)
(* Properties of the callbacks answered by one service.                    *)
(***************************************************************************)

\* this step starts a carrier-service callback
CallStarts ==
  /\ quote.pc \in {"idle", "done"}
  /\ quote'.pc # "idle"
  /\ quote' # quote
  /\ quote'.request.object

\* the results of earlier calls that the rate cache holds for the key of the
\* request of the call that starts
EarlierResults == Cached(BuildRateCacheKey(quote'.request))

\* C21: a calculate call whose cache key equals that of an earlier successful
\* call, made while that earlier result is still in the rate cache, returns
\* the same rate list and makes no Webkul or Biteship call.
C21_CacheHit ==
  [][CallStarts =>
       \A e \in EarlierResults :
         /\ quote'.pc = "done"
         /\ quote'.rates = e.rates
         /\ quote'.webkulCalls = 0
         /\ quote'.biteshipCalls = 0]_vars


\* a lookup of a variant's seller or of a seller's origin failed in this call
ResolutionGap == quote.gap \in {"variant", "origin"}

\* C22: in calculate a failure to resolve one variant's seller or one
\* seller's origin does not abort the computation: when another variant of
\* the cart was resolved, the call does not throw, it ends with the affected
\* items in skippedItems.
C22_GapNotFatal ==
  (quote.pc = "done" /\ ResolutionGap /\ quote.variants # <<>>) =>
    /\ ~quote.threw
    /\ quote.skippedItems # <<>>


\* this step ends the resolution of the origin of one seller in calculate
OriginStep == quote.pc = "origins" /\ quote' # quote

\* the origin that this step returned, for a step that returned one
ReturnedOrigin == quote'.origins[Len(quote.origins) + 1]

\* no call and no write is made in this step
NoLookup ==
  /\ quote'.webkulCalls = quote.webkulCalls
  /\ sellerCache' = sellerCache
  /\ originStore' = originStore

\* C23: seller-origin resolution returns the persisted-store entry when it
\* has a postal code, without consulting the cache or Webkul; else the cached
\* entry when it has a postal code, without calling Webkul; else the live
\* Webkul result; and only when the live lookup fails, the configured
\* default postal code if one is configured, otherwise the lookup error
\* propagates.
C23_ResolutionOrder ==
  [][OriginStep =>
       LET persisted == originStore[NextSeller]
           cached == sellerCache[NextSeller]
       IN IF HasPostalCode(persisted)
          THEN /\ ~quote'.threw
               /\ ReturnedOrigin.postalCode = persisted.postalCode
               /\ ReturnedOrigin.source = persisted.source
               /\ ReturnedOrigin.via = "persisted"
               /\ NoLookup
          ELSE IF HasPostalCode(cached)
          THEN /\ ~quote'.threw
               /\ ReturnedOrigin.postalCode = cached.postalCode
               /\ ReturnedOrigin.source = cached.source
               /\ ReturnedOrigin.via = "cached"
               /\ NoLookup
          ELSE /\ quote'.webkulCalls = quote.webkulCalls + 1
               /\ IF quote'.threw
                  THEN /\ quote'.gap = "origin"
                       /\ shipping.defaultOriginPostalCode = ""
                  ELSE \/ /\ ReturnedOrigin.via = "live"
                          /\ ReturnedOrigin.postalCode = WebkulPostalCode(NextSeller)
                       \/ /\ ReturnedOrigin.via = "default"
                          /\ shipping.defaultOriginPostalCode # ""
                          /\ ReturnedOrigin.postalCode = shipping.defaultOriginPostalCode]_vars

\* a call in which the origin of the first seller came from the persisted
\* store, written by a sync event, and the origin of another seller is the
\* default postal code after a failed lookup
C23_Witness ==
  /\ quote.pc = "done"
  /\ quote.origins # <<>>
  /\ quote.origins[1].via = "persisted"
  /\ quote.origins[1].source = "sync"
  /\ \E i \in 1..Len(quote.origins) : quote.origins[i].via = "default"


\* C24: a quote computation never writes to the persisted seller-origin
\* store: the store changes only in the steps of origin-sync events, which
\* are no steps of calculate.
C24_QuoteLeavesStore ==
  [][originStore' # originStore => quote' = quote]_vars


\* C30: when calculate fails with an exception inside the carrier-service
\* callback, the response is a server error (HTTP 500) if
\* shopify.useBackupOnError is true and otherwise HTTP 200 with an empty rate
\* list; in neither case are partial rates returned.
C30_FailureResponse ==
  (quote.pc = "done" /\ quote.threw) =>
    /\ quote.http.status = IF shipping.useBackupOnError THEN 500 ELSE 200
    /\ quote.http.body = IF shipping.useBackupOnError THEN "error" ELSE "rates"
    /\ quote.http.rates = <<>>
    /\ quote.rates = <<>>
    /\ quote.log = "failure"

\* with useBackupOnError a getRates call failed after the lookups of two
\* sellers succeeded, and the callback answered 500
C30_Witness ==
  /\ quote.pc = "done"
  /\ quote.threw
  /\ quote.gap = "rates"
  /\ Len(quote.sellerGroups) = 2
  /\ shipping.useBackupOnError
  /\ quote.http.status = 500

(***************************************************************************)
(* Properties of MemoryCache.                                              *)
(***************************************************************************)
\* a set of a key that is absent, into a Map that is full
Overflows ==
  /\ got'.op = "set"
  /\ now' = now
  /\ MapIndex(cache.map, got'.key, 1) = 0
  /\ Len(cache.map) = cache.maxEntries

\* C25: when an insertion makes the entry count exceed maxEntries, the
\* entry that is evicted is the least recently touched one, a get of a live
\* entry and a set, also of a key that is present, being a touch.
C25_LruEviction ==
  [][Overflows =>
       MapKeys(cache.map) \ MapKeys(cache'.map) = {Head(got.touched)}]_vars

\* a get
Gets == got'.op = "get" /\ now' = now

\* C26: get returns null for an entry whose TTL has elapsed and removes the
\* entry from the Map; get of an entry in the Map that has not expired
\* returns the value last set for its key.
C26_GetExpiry ==
  [][Gets =>
       LET i == MapIndex(cache.map, got'.key, 1)
       IN /\ (i # 0 /\ cache.map[i].expiresAt <= now) =>
               /\ got'.value = 0
               /\ MapIndex(cache'.map, got'.key, 1) = 0
          /\ (i # 0 /\ cache.map[i].expiresAt > now) =>
               got'.value = got.last[got'.key]]_vars

\* a get has found an expired entry, set to 2 after it was set to 1, and
\* has removed it
C26_Witness ==
  /\ got.op = "get"
  /\ got.hit = "expired"
  /\ got.last[got.key] = 2
  /\ MapIndex(cache.map, got.key, 1) = 0
  /\ now >= 2

\* a get has returned the value of a live entry set twice
C26_WitnessLive ==
  /\ got.op = "get"
  /\ got.hit = "live"
  /\ got.value = 2
  /\ now >= 1

(***************************************************************************)
(* Properties of the order plan and of the fulfillment allocator.          *)
(***************************************************************************)
\* _buildPlan has returned a plan
Planned == plan.pc = "done" /\ ~plan.threw

\* the line items of the order with an id
OrderItems(id) ==
  {plan.order.line_items[i] : i \in 1..Len(plan.order.line_items)} \cap
  {item \in FirstItems \cup SecondItems : item.id = id}

\* C27: a line item is in a seller group of the plan only if it is not
\* flagged as needing no shipping and its fulfillable quantity is positive,
\* and the quantity booked for it (items) and requested for fulfillment
\* (lineItems) is its fulfillable quantity, not its ordered quantity.  A
\* line item without a fulfillable_quantity field is left aside.
C27_FulfillableQuantity ==
  Planned =>
    \A g \in 1..Len(plan.sellerGroups) :
      \A k \in 1..Len(plan.sellerGroups[g].lineItems) :
        \A item \in OrderItems(plan.sellerGroups[g].lineItems[k].lineItemId) :
          /\ item.requires_shipping # "false"
          /\ item.fulfillable_quantity.t = "number" =>
               /\ item.fulfillable_quantity.v > 0
               /\ plan.sellerGroups[g].lineItems[k].quantity
                    = item.fulfillable_quantity.v
               /\ plan.sellerGroups[g].items[k].quantity
                    = item.fulfillable_quantity.v

\* a shipping line whose code is BSH_<courier>_<service> or the
\* mixed-cheapest token, whatever its case and the blanks around it
Parses(line) ==
  LET code == ToUpperCase(Trim(RawCode(line)))
  IN \/ code = MultiCheapest
     \/ \E n \in 1..Len(code) :
          /\ n > Len(BshPrefix) + 1
          /\ n < Len(code)
          /\ SubSeq(code, 1, Len(BshPrefix)) = BshPrefix
          /\ code[n] = "_"
          /\ \A j \in (Len(BshPrefix) + 1)..(n - 1) : code[j] # "_"

\* the override names a courier company and a courier type
Overridden ==
  /\ Trim(plan.options.courierCompany) # <<>>
  /\ Trim(plan.options.courierType) # <<>>

\* the selection is the one of the k-th shipping line
SelectedLine(k) ==
  LET code == ToUpperCase(Trim(RawCode(plan.order.shipping_lines[k])))
      sel == plan.selectedShipping
  IN /\ sel.source = "shopify_shipping_line"
     /\ sel.serviceCode = RawCode(plan.order.shipping_lines[k])
     /\ IF code = MultiCheapest
        THEN sel.isMixedFallback /\ sel.courierCompany = <<>> /\ sel.courierType = <<>>
        ELSE /\ ~sel.isMixedFallback
             /\ ToUpperCase(BshPrefix \o sel.courierCompany \o <<"_">> \o sel.courierType)
                  = code
             /\ sel.courierCompany = ToLowerCase(sel.courierCompany)
             /\ sel.courierType = ToLowerCase(sel.courierType)

\* the selection of the plan is resolved
Selected == plan.pc = "groups" \/ Planned

\* C28: the selection is the manual override when courier company and
\* courier type are both given; otherwise that of the first shipping line
\* whose code parses; otherwise none.  Every seller group handled gets the
\* courier of a selection that carries one, without any rate request, and
\* else the cheapest rate of one rate request of its own.
C28_ShippingSelection ==
  Selected =>
    LET sel == plan.selectedShipping
        lines == plan.order.shipping_lines
    IN /\ Overridden =>
            /\ sel.source = "manual_override"
            /\ sel.courierCompany = ToLowerCase(Trim(plan.options.courierCompany))
            /\ sel.courierType = ToLowerCase(Trim(plan.options.courierType))
       /\ (~Overridden /\ \E k \in 1..Len(lines) : Parses(lines[k])) =>
            \E k \in 1..Len(lines) :
              /\ Parses(lines[k])
              /\ \A j \in 1..(k - 1) : ~Parses(lines[j])
              /\ SelectedLine(k)
       /\ (~Overridden /\ \A k \in 1..Len(lines) : ~Parses(lines[k])) =>
            sel = NoSelection
       /\ IF sel.courierCompany # <<>>
          THEN /\ plan.rateCalls = 0
               /\ \A g \in 1..Len(plan.sellerGroups) :
                    /\ plan.sellerGroups[g].courierSelection.courierCompany
                         = sel.courierCompany
                    /\ plan.sellerGroups[g].courierSelection.courierType
                         = sel.courierType
                    /\ plan.sellerGroups[g].courierSelection.source = sel.source
          ELSE /\ sel.source = "none" \/ sel.isMixedFallback
               /\ plan.rateCalls = Len(plan.sellerGroups)
               /\ \A g \in 1..Len(plan.sellerGroups) :
                    plan.sellerGroups[g].courierSelection.source = "cheapest_requote"

\* a plan with two seller groups, each with a re-quote of its own, for an
\* order whose first shipping line does not parse and whose second is the
\* mixed-cheapest token
C28_Witness ==
  /\ Planned
  /\ Len(plan.sellerGroups) = 2
  /\ plan.rateCalls = 2
  /\ plan.selectedShipping.isMixedFallback
  /\ Len(plan.order.shipping_lines) = 2
  /\ ~Parses(plan.order.shipping_lines[1])

\* a plan whose groups take the courier of a shipping line although the
\* override names a courier company
C28_WitnessLine ==
  /\ Planned
  /\ Len(plan.sellerGroups) = 2
  /\ plan.rateCalls = 0
  /\ plan.selectedShipping.source = "shopify_shipping_line"
  /\ plan.options.courierCompany # <<>>

\* an allocate call has returned
Allocated == alloc.built /\ alloc.requested # <<>>

\* the entries of the result for a candidate, as quantities
TakenFrom(candidate) ==
  SumSeq([g \in 1..Len(alloc.lineItemsByFulfillmentOrder) |->
            IF alloc.lineItemsByFulfillmentOrder[g].fulfillment_order_id
                 = candidate.fulfillmentOrderId
            THEN LET entries ==
                       alloc.lineItemsByFulfillmentOrder[g].fulfillment_order_line_items
                 IN SumSeq([e \in 1..Len(entries) |->
                              IF entries[e].id = candidate.fulfillmentOrderLineItemId
                              THEN entries[e].quantity ELSE 0])
            ELSE 0])

\* the quantity requested, allocated and reported as unallocated for a
\* line item
RequestedFor(lineItemId) ==
  SumSeq([r \in 1..Len(alloc.requested) |->
            IF alloc.requested[r].lineItemId = lineItemId
            THEN alloc.requested[r].quantity ELSE 0])

AllocatedFor(lineItemId) ==
  SumSeq([i \in 1..Len(alloc.before) |->
            IF alloc.before[i].lineItemId = lineItemId
            THEN TakenFrom(alloc.before[i]) ELSE 0])

UnallocatedFor(lineItemId) ==
  SumSeq([u \in 1..Len(alloc.unallocated) |->
            IF alloc.unallocated[u].lineItemId = lineItemId
            THEN alloc.unallocated[u].quantity ELSE 0])

\* C29: for the requested line items, the allocator takes from the
\* candidates in their listing order, a candidate's remaining quantity goes
\* down by exactly what is taken from it, what is allocated and what is
\* reported as unallocated add up to what was requested, and a remainder is
\* reported only when the candidates are used up.
C29_Allocation ==
  Allocated =>
    /\ Len(alloc.byLineItem) = Len(alloc.before)
    /\ \A i \in 1..Len(alloc.before) :
         /\ alloc.byLineItem[i].remainingQty
              = alloc.before[i].remainingQty - TakenFrom(alloc.before[i])
         /\ alloc.byLineItem[i].remainingQty >= 0
         /\ \A j \in (i + 1)..Len(alloc.before) :
              (alloc.before[j].lineItemId = alloc.before[i].lineItemId
                 /\ TakenFrom(alloc.before[j]) > 0)
                => alloc.byLineItem[i].remainingQty = 0
    /\ \A r \in 1..Len(alloc.requested) :
         LET lineItemId == alloc.requested[r].lineItemId
         IN lineItemId # "" =>
              /\ RequestedFor(lineItemId)
                   = AllocatedFor(lineItemId) + UnallocatedFor(lineItemId)
              /\ UnallocatedFor(lineItemId) > 0 =>
                   \A i \in 1..Len(alloc.byLineItem) :
                     alloc.byLineItem[i].lineItemId = lineItemId
                       => alloc.byLineItem[i].remainingQty = 0

\* 1 was requested of a line item whose only request it was, from a
\* candidate with 2 remaining: 1 remains and nothing is unallocated
C29_Witness ==
  /\ Allocated
  /\ alloc.requested = <<[lineItemId |-> "1002", quantity |-> 1]>>
  /\ \E i \in 1..Len(alloc.before) :
       /\ alloc.before[i].lineItemId = "1002"
       /\ alloc.before[i].remainingQty = 2
       /\ alloc.byLineItem[i].remainingQty = 1
  /\ alloc.unallocated = <<>>

\* a request was met from two fulfillment orders and its remainder reported
C29_WitnessRemainder ==
  /\ Allocated
  /\ Len(alloc.lineItemsByFulfillmentOrder) = 2
  /\ \E u \in 1..Len(alloc.unallocated) :
       /\ alloc.unallocated[u].lineItemId = "1001"
       /\ AllocatedFor("1001") > 0

(***************************************************************************)
(* Properties of order syncs made at the same time.                        *)
(***************************************************************************)
\* C31: nothing but a completed record stops a call: a call that has read a
\* record that is not completed (or is forced) goes on, whatever another
\* call in progress has done, and when it returns it has made a booking
\* call for every seller group left to booking.
C31_NoLock ==
  [][\A p \in Procs :
       /\ (run[p].pc = "getOrder" /\ run'[p].pc = "done"
             /\ run'[p].result.kind = "returned")
            => (~run[p].force /\ data.status = "completed")
       /\ (run[p].pc = "booking" /\ run'[p].pc = "done")
            => \A i \in 1..Len(run'[p].plan) :
                 (run'[p].plan[i].valid
                    /\ PreviousShipment(
                         ExistingShipments(run[p].existingRecord, heap),
                         run[p].plan[i].sellerId).status # "created")
                   => run'[p].calls[i] # "none"]_vars

\* both calls read the empty store before either wrote its processing
\* record, and both have made a successful booking call for seller 1
C31_Witness ==
  /\ \A p \in Procs :
       /\ ~run[p].force
       /\ run[p].existingRecord = NoRecord
       /\ Len(run[p].plan) >= 1
       /\ run[p].plan[1].sellerId = 1
       /\ run[p].calls[1] = "ok"
  /\ runs = 2

(***************************************************************************)
(* Properties of the steps of one order sync.                              *)
(***************************************************************************)
\* C32: a run that has built its plan has written its processing record
\* before its fulfillment-order fetch and before its first booking call:
\* while one of them is awaited, the store and the file hold the processing
\* record of the run; and nothing is written before the plan is built (a
\* call that awaits getOrder leaves the file, and the store unless the
\* process is started again and reloads it from the file).
C32_ProcessingFirst ==
  [][\A p \in Procs :
       /\ run'[p].pc \in {"fetchFO", "booking", "fulfill"} =>
            /\ data' = SavedRecord("processing", run'[p].arr, "none")
            /\ file'.status = "processing"
       /\ (run[p].pc = "plan" /\ run'[p].pc \in {"fetchFO", "booking"}) =>
            /\ file'.shipments = <<>>
            /\ \A i \in 1..Len(run[p].calls) : run[p].calls[i] = "none"
       /\ run[p].pc = "getOrder" =>
            /\ file' = file
            /\ run'[p].pc # "idle" => data' = data]_vars

\* a second run of an order whose first run failed in part has replaced
\* the record by its processing record and awaits the fulfillment orders
C32_Witness ==
  /\ run["p1"].pc = "fetchFO"
  /\ run["p1"].existingRecord.status = "partial_failed"
  /\ data.status = "processing"
  /\ file.status = "processing"

\* a payload lacks one of the fields _buildOrderPayload requires
Lacks(payload) ==
  \E f \in PayloadFields : payload[f] \in {NoField, Text("")}

\* C33: a payload that lacks the origin contact phone, the destination phone,
\* the origin address, the destination address or a postal code is rejected
\* by _buildOrderPayload; a group whose payload is rejected (and which is not
\* reused) never gets a booking call, at any time of the run, and is a failed
\* shipment with the payload error in the record of the finished run; and
\* every other group of that run that is not reused and whose payload is
\* accepted got its booking call.
C33_PayloadRejected ==
  /\ \A payload \in GroupPayloads :
       Lacks(payload) <=> BuildOrderPayload(payload) # "ok"
  /\ \A p \in Procs : \A i \in Groups(p) :
       (~run[p].plan[i].valid /\ ~Reuses(run[p].force, Previous(p, i))) =>
         /\ run[p].calls[i] = "none"
         /\ run[p].fcalls[i] = "none"
         /\ Finished(p) =>
              /\ heap[run[p].arr][i] =
                   FailedShipment(run[p].plan[i].sellerId, PayloadError)
              /\ \A j \in Groups(p) :
                   (run[p].plan[j].valid
                      /\ ~Reuses(run[p].force, Previous(p, j)))
                     => run[p].calls[j] # "none"

\* a finished run whose first group was rejected for its payload and whose
\* second group was booked
C33_Witness ==
  /\ Finished("p1")
  /\ Len(run["p1"].plan) = 2
  /\ ~run["p1"].plan[1].valid
  /\ ~Reuses(run["p1"].force, Previous("p1", 1))
  /\ heap[run["p1"].arr][1] = FailedShipment(1, PayloadError)
  /\ run["p1"].calls[2] = "ok"

(* Properties of the functions without effects. *)

\* C34: the cache keys of two requests that differ only in the order of
\* their line items are the same.
C34_KeyIgnoresOrder ==
  (calc.fn = "_buildRateCacheKey" /\ Len(calc.keys) = 2)
    => calc.keys[1] = calc.keys[2]

\* the rate whose delivery days were extracted
Extracted == calc.fn = "_extractDurationDays" /\ calc.returned

\* the rate has a positive min_day or max_day
HasDirect == calc.item.min_day > 0 \/ calc.item.max_day > 0

\* the integers of the duration range of the rate
RangeNumbers ==
  MatchNumbers(Trim(IF calc.item.shipment_duration_range # <<>>
                    THEN calc.item.shipment_duration_range
                    ELSE calc.item.duration), 0, FALSE)

\* the units per day of the rate: 24 for hours, 1440 for minutes, else 1
PerDay ==
  LET unit == IF calc.item.shipment_duration_unit # <<>>
              THEN calc.item.shipment_duration_unit ELSE calc.item.duration
  IN IF unit \in {Hours, <<"H", "o", "u", "r">>, <<"2", " ">> \o Hours}
     THEN 24
     ELSE IF unit = <<"M", "I", "N", "U", "T", "E", "S">> THEN 1440
     ELSE 1

\* the direct days are used when either is positive, and a missing one takes
\* the value of the other
DirectUsed ==
  (Extracted /\ HasDirect) =>
    /\ calc.result.minDay =
         Days(IF calc.item.min_day > 0 THEN calc.item.min_day
              ELSE calc.item.max_day, 1)
    /\ calc.result.maxDay =
         Days(IF calc.item.max_day > 0 THEN calc.item.max_day
              ELSE calc.item.min_day, 1)

\* "1 - 2" gives 1/24 and 2/24 of a day in hours, 1 and 2 days in days
Examples ==
  (Extracted /\ ~HasDirect /\ calc.item.shipment_duration_range = OneToTwo) =>
    /\ calc.item.shipment_duration_unit = Hours =>
         /\ calc.result.minDay = [n |-> 1, per |-> 24]
         /\ calc.result.maxDay = [n |-> 1, per |-> 12]
    /\ (calc.item.shipment_duration_unit = <<"d", "a", "y", "s">>
          \/ (calc.item.shipment_duration_unit = <<>>
                /\ calc.item.duration = <<>>)) =>
         /\ calc.result.minDay = [n |-> 1, per |-> 1]
         /\ calc.result.maxDay = [n |-> 2, per |-> 1]

\* C35 as stated: without direct days, the first two integers of the range,
\* scaled by the unit, are minDay and maxDay.
C35_Original ==
  /\ DirectUsed
  /\ Examples
  /\ (Extracted /\ ~HasDirect /\ Len(RangeNumbers) >= 2) =>
       /\ calc.result.minDay = Days(RangeNumbers[1], PerDay)
       /\ calc.result.maxDay = Days(RangeNumbers[2], PerDay)

\* C35 amended: the direct days are used when either is positive; otherwise
\* minDay is the first integer of the range scaled by the unit, and maxDay is
\* the second integer scaled by the unit unless the second integer is 0 or
\* absent, in which case maxDay is minDay; a range without an integer gives
\* 0 and 0.
C35_DurationDays ==
  /\ DirectUsed
  /\ Examples
  /\ (Extracted /\ ~HasDirect) =>
       IF RangeNumbers = <<>>
       THEN calc.result = [minDay |-> Days(0, 1), maxDay |-> Days(0, 1)]
       ELSE /\ calc.result.minDay = Days(RangeNumbers[1], PerDay)
            /\ calc.result.maxDay =
                 IF Len(RangeNumbers) >= 2 /\ RangeNumbers[2] # 0
                 THEN Days(RangeNumbers[2], PerDay)
                 ELSE calc.result.minDay

\* "1 - 2" in hours was taken for 1/24 and 2/24 of a day
C35_Witness ==
  /\ Extracted
  /\ ~HasDirect
  /\ calc.item.shipment_duration_range = OneToTwo
  /\ calc.item.shipment_duration_unit = Hours
  /\ calc.result = [minDay |-> [n |-> 1, per |-> 24],
                    maxDay |-> [n |-> 1, per |-> 12]]

(* Properties of order syncs repeated without force. *)

\* C36: when a run without force has gone through the loop, every group
\* whose booking call succeeded in it is in the saved record as a created
\* shipment that carries a booking id (so that a later run without force
\* reuses it and does not book the group again).
C36_BookedOnce ==
  \A p \in Procs :
    Finished(p) =>
      \A i \in Groups(p) :
        run[p].calls[i] = "ok" =>
          /\ heap[data.arr][i].status = "created"
          /\ heap[data.arr][i].biteshipOrderId # 0
          /\ file.shipments[i].status = "created"

(* Properties of the allocator shared by the seller groups of a run. *)

\* the line items of the fetched fulfillment orders that name a line item of
\* the order, in the order of the candidates of the allocator
RECURSIVE FetchedLines(_)
FetchedLines(fulfillmentOrders) ==
  IF fulfillmentOrders = <<>> THEN <<>>
  ELSE SelectSeq(Head(fulfillmentOrders).line_items,
                 LAMBDA l : l.line_item_id # "")
       \o FetchedLines(Tail(fulfillmentOrders))

\* the quantity that the allocate calls made so far took from candidate k
TakenSoFar(k) ==
  ByLineItem(alloc.fetched)[k].remainingQty - alloc.byLineItem[k].remainingQty

\* C37: over all allocate calls made on the allocator of a run, the quantity
\* taken from a fulfillment-order line item is at most the fulfillable
\* quantity with which that line item was fetched, and no candidate's
\* remaining quantity is negative.
C37_WithinFulfillable ==
  alloc.built =>
    \A k \in 1..Len(alloc.byLineItem) :
      /\ alloc.byLineItem[k].remainingQty >= 0
      /\ FetchedLines(alloc.fetched)[k].fulfillable_quantity.t = "number" =>
           TakenSoFar(k) <= FetchedLines(alloc.fetched)[k].fulfillable_quantity.v

(* Properties of Webkul requests rejected for a stale token. *)

\* C38: a Webkul request that was rejected with 401 issues a token-refresh
\* call only if the client still holds the token the request was sent with;
\* once a refresh has replaced that token, a later 401 for the same token
\* issues no further refresh call (one refresh call per stale token).
C38_OneRefreshPerToken ==
  [][\A r \in Reqs :
       (client = "webkul" /\ req'[r].refreshes > req[r].refreshes)
         => req[r].token = tokens.accessToken]_vars

\* C39: the service code emitted for a common rate is parsed back to the
\* courier code and the service code of that rate, and is not taken for the
\* mixed-cheapest token.
C39_RoundTrip ==
  (calc.fn = "service_code" /\ calc.pc = "parsed") =>
    /\ calc.parsed.parsed
    /\ ~calc.parsed.isMixedFallback
    /\ calc.parsed.courierCompany = calc.rate.courierCode
    /\ calc.parsed.courierType = calc.rate.serviceCode

(* Properties of all the operations of the MemoryCache. *)

\* C40: after any sequence of get, set, delete and clear on a MemoryCache
\* with maxEntries >= 0, size() is at most maxEntries (the Map holds one
\* entry per key).
C40_SizeBounded ==
  /\ Len(cache.map) <= cache.maxEntries
  /\ \A i, j \in 1..Len(cache.map) :
       cache.map[i].key = cache.map[j].key => i = j

\* a set on a full cache: a key that was set before is gone and the cache is
\* full again
C40_Witness ==
  /\ got.op = "set"
  /\ cache.maxEntries >= 1
  /\ Len(cache.map) = cache.maxEntries
  /\ now = 0
  /\ \E k \in CacheKeys :
       k # got.key /\ got.last[k] # 0 /\ k \notin MapKeys(cache.map)

(***************************************************************************)
(* Specifications.                                                         *)
(***************************************************************************)

\* order syncs made one after the other, with process restarts
Init == InitSync /\ ClientOff /\ QuoteOff

Next == NextSync

Spec == Init /\ [][Next]_vars


\* order syncs of one order made at the same time
SpecRace == Init /\ [][NextRace]_vars

\* order syncs without force, one after the other, without a crash
SpecRerun == Init /\ [][NextRerun]_vars

\* calls made on one client instance, at the same time
SpecClient == InitClient /\ [][NextClient]_vars

\* one quote computation of a ShippingService
SpecQuote == InitQuote /\ [][NextQuote]_vars

\* carrier-service callbacks answered one after the other by one service,
\* with origin-sync events and cache expiry in between
SpecCalls == InitCalls /\ [][NextCalls]_vars

\* the operations on one MemoryCache while time passes
SpecCache == InitCache /\ [][NextCache]_vars

\* all the operations of a MemoryCache, also on one that holds no entry
SpecCacheOps == InitCacheOps /\ [][NextCacheOps]_vars

\* the plans that OrderSyncService builds for placed orders
SpecPlan == InitPlan /\ [][NextPlan]_vars

\* one fulfillment allocator and the allocations asked of it
SpecAlloc == InitAlloc /\ [][NextAlloc]_vars

\* the cache keys of pairs of quote requests
SpecKey == InitKey /\ [][NextKey]_vars

\* the delivery days taken from rates of the courier service
SpecDuration == InitDuration /\ [][NextDuration]_vars

\* service codes emitted with a quote and read back from the order
SpecCode == InitCode /\ [][NextCode]_vars

====
